---- MODULE Spec2Model ----
(***************************************************************************)
(* WebCheck (src/webcheck.py): the concurrent DNS -> TCP -> HTTP probing   *)
(* engine, its shared RateLimiter, the connection pool of its session, the *)
(* result classifier, the summary builder and the batch collection loop    *)
(* of main().                                                              *)
(*                                                                         *)
(* The engine runs on one asyncio event loop: the code between two await   *)
(* points is one atomic step, so every action below is one such segment    *)
(* of one coroutine, from the completion of the awaited operation to the   *)
(* next suspension.                                                        *)
(*                                                                         *)
(* Time.  time.time() is unbounded, so the clock is kept relative: the     *)
(* limiter's timestamp is represented by since_last = time.time() -        *)
(* last_request, saturated at Delay (wait() only compares it with delay),  *)
(* and a sleeping coroutine by the time it still has to sleep.  Tick lets  *)
(* one time unit pass.  The clock is assumed not to run backwards.         *)
(***************************************************************************)
EXTENDS Integers, Sequences, FiniteSets, TLC

\* ------------------------------------------------------------------ bounds
NumEntries == 2     \* Target Entries in the batch
Retries    == 1     \* config.retries (R)
Delay      == 2     \* config.rate_limit_delay, in clock ticks
JitterMax  == 1     \* config.jitter_max, in clock ticks
MaxRetries == 3     \* largest config.retries of a pipeline run on its own

Entries == 1..NumEntries

\* ---------------------------------------------------------- Optional[...]
\* Python's None and a present value: comparable whatever the value's type.
None     == <<>>
Some(v)  == <<v>>
Val(x)   == x[1]

Min(a, b) == IF a <= b THEN a ELSE b
Max(a, b) == IF a >= b THEN a ELSE b

\* -------------------------------------------------------------- constants
ICON_OK      == "ICON_OK"
ICON_ERROR   == "ICON_ERROR"
ICON_CAPTCHA == "ICON_CAPTCHA"
Fore_GREEN   == "GREEN"
Fore_RED     == "RED"
Fore_YELLOW  == "YELLOW"

\* ------------------------------------------------------------ environment
\* What one awaited network operation can raise.  Every fault of the network
\* libraries is an Exception; a timeout of asyncio.wait_for / ClientTimeout is
\* asyncio.TimeoutError.  msg is str(e).
Faults == { [cls |-> "TimeoutError", msg |-> ""],
            [cls |-> "Exception",    msg |-> "refused"] }

\* HTTP status codes a server may answer.
Statuses == {200, 503}

\* The outcomes of one DNS attempt: an address, or a fault.
DnsOutcomes == {[kind |-> "ok"]} \cup {[kind |-> "fault", fault |-> f] : f \in Faults}

\* What writer.wait_closed() can raise once the connection is established:
\* the same classes and texts, marked as raised while closing.
CloseFaults == { [cls |-> f.cls, msg |-> f.msg, closing |-> TRUE] : f \in Faults }

\* The outcomes of one TCP attempt: connected and closed, a fault before the
\* connection is established, or a fault of writer.wait_closed() after it.
TcpOutcomes == {[kind |-> "ok"]}
               \cup {[kind |-> "fault", fault |-> f] : f \in Faults}
               \cup {[kind |-> "close_fault", fault |-> f] : f \in CloseFaults}

\* The outcomes of one HTTP attempt: a response whose body was read (with the
\* verdict of detect_captcha on it), a fault before the response, or a fault
\* while reading the body of a received response.
HttpOutcomes == {[kind |-> "response", status |-> s, captcha |-> c] : s \in Statuses, c \in BOOLEAN}
                \cup {[kind |-> "fault", fault |-> f] : f \in Faults}
                \cup {[kind |-> "read_fault", fault |-> f] : f \in Faults}

\* ------------------------------------------------------------------ state
VARIABLES
    pc,          \* pc[i]: where pipeline i (one check_url task) is suspended
    attempt,     \* attempt[i]: the loop variable of the running retry loop
    err,         \* err[i]: the local err of the running retry loop
    dns,         \* dns[i]: check_url's <<dns_ip, dns_err, dns_lat>>, once the DNS stage returned
    tcp,         \* tcp[i]: check_url's <<tcp_ok, tcp_err, tcp_lat>>, once the TCP stage returned
    remaining,   \* remaining[i]: what is left of i's asyncio.sleep in RateLimiter.wait
    backoff,     \* backoff[i]: base part of i's current backoff sleep, <<b, factor>>
    tries,       \* tries[i][stage]: attempts of that stage started so far (history,
                 \* kept until main has taken the task's result)
    faults,      \* faults[i]: the fault of the latest attempt of the running loop, if it
                 \* failed (history)
    since_last,  \* time.time() - rate_limiter.last_request, saturated at Delay
    grants,      \* history of the limiter: the last two callers granted, and the time between them
    gets,        \* gets[i]: the returns of rate_limiter.wait() to pipeline i and the
                 \* session.get calls of pipeline i so far (history, kept until main
                 \* has taken the task's result)
    done_queue,  \* finished tasks, in completion order (as_completed)
    results,     \* main's results list
    main_pc,     \* main: "collecting", "done" or "aborted" (an exception reached main)
    summary,     \* main's summary, once build_summary(results) has returned
    retries,     \* config.retries
    concurrency, \* config.concurrency, the limit of the session's TCPConnector
    batch,       \* the aggregator on its own: the results handed to build_summary
    reordered,   \* the aggregator on its own: the same results in another order
    built,       \* the aggregator on its own: what build_summary returned for each
    given,       \* the detector on its own: the body and headers of a response
    page,        \* the detector on its own: the response after text was added to it
    grown,       \* the detector on its own: where text was added ("no": nowhere)
    found,       \* the detector on its own: what each call detect_captcha(given) returned
    found_grown, \* the detector on its own: what detect_captcha(page) returned
    file,        \* the loader on its own: the lines of the file read so far
    current_group, \* the loader on its own: load_urls' current_group
    entries,     \* the loader on its own: load_urls' entries
    load_pc,     \* the loader on its own: "reading", "returned" or "exited" (sys.exit)
    args,        \* the command line on its own: what parser.parse_args() returned
    config,      \* the command line on its own: main's config
    cli_pc,      \* the command line on its own: "parsed", then "configured"
    active_checks, \* the web front-end: active_checks[check_id], None for an id never registered
    tasks,       \* the web front-end: the run_check tasks created so far
    clock,       \* the web front-end: int(time.time() * 1000)
    loop_running, \* the web front-end: an event loop is running in the thread that serves the requests
    response,    \* the web front-end: the latest answer to a request
    cr,          \* the classifier on its own: the CheckResult handed to colorize
    verdict      \* the classifier on its own: what each call of colorize(cr) returned

pipeVars   == <<pc, attempt, err, dns, tcp, backoff, tries, faults>>
limVars    == <<remaining, since_last, grants, gets>>
mainVars   == <<done_queue, results, main_pc>>
engineVars == <<pipeVars, limVars, mainVars, summary>>
cfgVars    == <<retries, concurrency>>
clsVars    == <<cr, verdict>>
sumVars    == <<batch, reordered, built>>
\* The configuration, and the state of the functions that are run on their own.
capVars    == <<given, page, grown, found, found_grown>>
loadVars   == <<file, current_group, entries, load_pc>>
cliVars == <<args, config, cli_pc>>
webVars == <<active_checks, tasks, clock, loop_running, response>>
\* The state of each function that is run on its own, and what a run of one
\* of them leaves alone.
aloneVars  == <<clsVars, sumVars, capVars, loadVars, cliVars, webVars>>
notCls     == <<engineVars, cfgVars, sumVars, capVars, loadVars, cliVars, webVars>>
notSum     == <<engineVars, cfgVars, clsVars, capVars, loadVars, cliVars, webVars>>
notCap     == <<engineVars, cfgVars, clsVars, sumVars, loadVars, cliVars, webVars>>
notLoad    == <<engineVars, cfgVars, clsVars, sumVars, capVars, cliVars, webVars>>
notCli     == <<engineVars, cfgVars, clsVars, sumVars, capVars, loadVars, webVars>>
notWeb     == <<engineVars, cfgVars, clsVars, sumVars, capVars, loadVars, cliVars>>
restVars   == <<cfgVars, aloneVars>>
\* What the pipelines and the collection loop leave alone.
offEngine  == <<summary, restVars>>
vars       == <<engineVars, restVars>>

\* ------------------------------------------------------------ CheckResult
\* The entry of pipeline i, as load_urls emits it.
Entry(i) == [group |-> "A", original |-> i, url |-> i]

\* The dataclass CheckResult.
CheckResult(group, original, url, dns_ip, dns_error, dns_latency, tcp_ok, tcp_error, tcp_latency, http_status, http_error, http_latency, captcha) ==
    [group |-> group, original |-> original, url |-> url,
     dns_ip |-> dns_ip, dns_error |-> dns_error, dns_latency |-> dns_latency,
     tcp_ok |-> tcp_ok, tcp_error |-> tcp_error, tcp_latency |-> tcp_latency,
     http_status |-> http_status, http_error |-> http_error,
     http_latency |-> http_latency, captcha |-> captcha]

\* Mutant: the short result records the skipped TCP stage as a failed one.
DnsFailedResultTcpFalse(i, d) ==
    CheckResult(Entry(i).group, Entry(i).original, Entry(i).url,
                d[1], d[2], d[3], Some(FALSE), None, None, None, None, None, FALSE)

\* check_url's return after a failed DNS stage.
DnsFailedResult(i, d) ==
    CheckResult(Entry(i).group, Entry(i).original, Entry(i).url,
                d[1], d[2], d[3], None, None, None, None, None, None, FALSE)

\* Mutant: check_url does not pass http_lat on.
FullResultDropsLatency(i, d, t, h) ==
    CheckResult(Entry(i).group, Entry(i).original, Entry(i).url,
                d[1], d[2], d[3], t[1], t[2], t[3], h[1], h[2], None, h[3])

\* Mutant: a GET that got no response is taken for a blocked one and flagged
\* as challenged.
FullResultFlagsBlocked(i, d, t, h) ==
    CheckResult(Entry(i).group, Entry(i).original, Entry(i).url,
                d[1], d[2], d[3], t[1], t[2], t[3], h[1], h[2], h[4], h[3] \/ h[1] = None)

\* check_url's return after the HTTP stage.
FullResult(i, d, t, h) ==
    CheckResult(Entry(i).group, Entry(i).original, Entry(i).url,
                d[1], d[2], d[3], t[1], t[2], t[3], h[1], h[2], h[4], h[3])

\* -------------------------------------------------------------- retry loop
\* Mutant: the loops have no `except Exception` clause.
CatchesTimeoutOnly(f) == f.cls = "TimeoutError"

\* The except clauses of the three retry loops: asyncio.TimeoutError, then
\* Exception.  A fault they do not catch leaves the probe as an exception.
Catches(f) == f.cls \in {"TimeoutError", "Exception"}

\* err as the handler that catches f sets it.
ErrText(stage, f) == IF f.cls = "TimeoutError" THEN stage \o " timeout" ELSE f.msg

\* Mutant: the loops have no test of the attempt number, a failed attempt is
\* always followed by another.
ExhaustedNever(a) == a < 0

\* Mutant: the loop gives up one attempt late.
ExhaustedLate(a) == a = retries + 1

\* `if attempt == retries: return <failure>`.
Exhausted(a) == a = retries

\* Mutant: the backoff grows by b with every attempt instead of doubling.
BackoffLinear(b, a) == <<b, a + 1>>

\* The base of the backoff sleep after failed attempt a: b * (2 ** a), kept as
\* <<b, 2 ** a>> with b in hundredths of a second.
BackoffBase(b, a) == <<b, 2 ^ a>>

\* A finished task, as as_completed hands it to main.
Returned(i, r) == [task |-> i, raised |-> FALSE, result |-> r]
Raised(i, f)   == [task |-> i, raised |-> TRUE,  result |-> f]

\* --------------------------------------------------------- connection pool
\* Mutant: the connector is built without `limit`, and has room for every
\* request of the batch.
PoolLimitUnset == concurrency + NumEntries

\* aiohttp.TCPConnector(limit=config.concurrency, ...): the connections the
\* session may hold at a time.
PoolLimit == concurrency

\* The requests of session.get that hold a connection of the pool.
InFlight == Cardinality({j \in Entries : pc[j] = "http"})

\* What an awaited session.get can complete with: anything once it holds a
\* connection; while it waits for one, only the ClientTimeout can end it.
HttpOutcomesAt(p) ==
    IF p = "http" THEN HttpOutcomes
    ELSE {[kind |-> "fault", fault |-> [cls |-> "TimeoutError", msg |-> ""]]}

\* ------------------------------------------------------------ RateLimiter
\* No return of wait() and no session.get yet.
NoGets == [granted |-> 0, started |-> 0]

\* Mutant: last_request is written inside the `if wait_time > 0` block, only
\* by a caller that slept.
GrantStampsAfterSleepOnly(i) ==
    /\ since_last' = IF pc[i] = "limiter_sleep" THEN 0 ELSE since_last
    /\ grants' = [by  |-> IF grants.by = <<>> THEN <<i>> ELSE <<grants.by[Len(grants.by)], i>>,
                  gap |-> IF grants.by = <<>> THEN None ELSE Some(since_last)]
    /\ remaining' = [remaining EXCEPT ![i] = 0]
    /\ gets' = [gets EXCEPT ![i] = [granted |-> @.granted + 1, started |-> @.started + 1]]
    /\ pc' = [pc EXCEPT ![i] = IF InFlight < PoolLimit THEN "http" ELSE "http_queued"]

\* `self.last_request = time.time()` and the return of wait(): the caller is
\* granted, and async_http_check goes on to session.get (its next await).
Grant(i) ==
    /\ since_last' = 0
    /\ grants' = [by  |-> IF grants.by = <<>> THEN <<i>> ELSE <<grants.by[Len(grants.by)], i>>,
                  gap |-> IF grants.by = <<>> THEN None ELSE Some(since_last)]
    /\ remaining' = [remaining EXCEPT ![i] = 0]
    /\ gets' = [gets EXCEPT ![i] = [granted |-> @.granted + 1, started |-> @.started + 1]]
    /\ pc' = [pc EXCEPT ![i] = IF InFlight < PoolLimit THEN "http" ELSE "http_queued"]

\* Mutant: wait() never sleeps.
WaitEnterNoSleep(i) == Grant(i)

\* RateLimiter.wait() from its call to its first suspension: reads the clock
\* and last_request, and either sleeps wait_time + jitter or grants at once.
WaitEnter(i) ==
    LET elapsed   == since_last
        wait_time == Delay - elapsed
    IN IF wait_time > 0
       THEN \E jitter \in 0..JitterMax :
               /\ remaining' = [remaining EXCEPT ![i] = wait_time + jitter]
               /\ pc' = [pc EXCEPT ![i] = "limiter_sleep"]
               /\ UNCHANGED <<since_last, grants, gets>>
       ELSE Grant(i)

\* One iteration of async_http_check's loop begins: rate_limiter.wait().
HttpIteration(i, a) ==
    /\ attempt' = [attempt EXCEPT ![i] = a]
    /\ tries' = [tries EXCEPT ![i].http = @ + 1]
    /\ WaitEnter(i)

\* ------------------------------------------------------------- classifier
\* Python truthiness of an Optional[int]: neither None nor 0.
Truthy(x) == x # None /\ Val(x) # 0

\* Mutant: the DNS test comes before the challenge test.
colorizeDnsFirst(result) ==
    IF result.dns_ip = None THEN <<Fore_RED, ICON_ERROR>>
    ELSE IF result.captcha THEN <<Fore_YELLOW, ICON_CAPTCHA>>
    ELSE IF result.tcp_ok = Some(FALSE) THEN <<Fore_RED, ICON_ERROR>>
    ELSE IF Truthy(result.http_status) /\ Val(result.http_status) >= 400
         THEN <<Fore_RED, ICON_ERROR>>
    ELSE <<Fore_GREEN, ICON_OK>>

\* Mutant: colorize has no test of dns_ip.
colorizeNoDnsTest(result) ==
    IF result.captcha THEN <<Fore_YELLOW, ICON_CAPTCHA>>
    ELSE IF result.tcp_ok = Some(FALSE) THEN <<Fore_RED, ICON_ERROR>>
    ELSE IF Truthy(result.http_status) /\ Val(result.http_status) >= 400
         THEN <<Fore_RED, ICON_ERROR>>
    ELSE <<Fore_GREEN, ICON_OK>>

\* colorize: the first test that matches decides.
colorize(result) ==
    IF result.captcha THEN <<Fore_YELLOW, ICON_CAPTCHA>>
    ELSE IF result.dns_ip = None THEN <<Fore_RED, ICON_ERROR>>
    ELSE IF result.tcp_ok = Some(FALSE) THEN <<Fore_RED, ICON_ERROR>>
    ELSE IF Truthy(result.http_status) /\ Val(result.http_status) >= 400
         THEN <<Fore_RED, ICON_ERROR>>
    ELSE <<Fore_GREEN, ICON_OK>>

\* CheckResult.is_success.
is_success(result) ==
    /\ result.dns_ip # None
    /\ result.tcp_ok = Some(TRUE)
    /\ result.http_status # None
    /\ Val(result.http_status) < 400
    /\ ~result.captcha

\* ------------------------------------------------------------- aggregator
\* A dict with no key.
EmptyDict == <<>>

\* The body of build_summary's loop for one result: the group's entry is made
\* on its first result, colorize is called once, and one counter goes up.
Count(s, r) ==
    LET g    == r.group
        t    == IF g \in DOMAIN s THEN s ELSE s @@ (g :> [ok |-> 0, warn |-> 0, fail |-> 0])
        icon == colorize(r)[2]
    IN IF icon = ICON_OK THEN [t EXCEPT ![g].ok = @ + 1]
       ELSE IF icon = ICON_CAPTCHA THEN [t EXCEPT ![g].warn = @ + 1]
       ELSE [t EXCEPT ![g].fail = @ + 1]

\* Mutant: the challenge branch is missing, a challenged result counts as fail.
CountNoWarn(s, r) ==
    LET g    == r.group
        t    == IF g \in DOMAIN s THEN s ELSE s @@ (g :> [ok |-> 0, warn |-> 0, fail |-> 0])
        icon == colorize(r)[2]
    IN IF icon = ICON_OK THEN [t EXCEPT ![g].ok = @ + 1]
       ELSE [t EXCEPT ![g].fail = @ + 1]

RECURSIVE NoWarnAfter(_, _)
NoWarnAfter(rs, k) == IF k = 0 THEN EmptyDict ELSE CountNoWarn(NoWarnAfter(rs, k - 1), rs[k])

build_summaryNoWarn(rs) == NoWarnAfter(rs, Len(rs))

\* Mutant: a group's counters start again whenever the group of the result
\* differs from that of the result before it (the results are taken to come
\* group by group).
RECURSIVE RunsAfter(_, _)
RunsAfter(rs, k) ==
    IF k = 0 THEN EmptyDict
    ELSE LET s == RunsAfter(rs, k - 1)
             g == rs[k].group
         IN IF k > 1 /\ rs[k - 1].group # g /\ g \in DOMAIN s
            THEN Count([s EXCEPT ![g] = [ok |-> 0, warn |-> 0, fail |-> 0]], rs[k])
            ELSE Count(s, rs[k])

build_summaryRuns(rs) == RunsAfter(rs, Len(rs))

\* The summary after the first k results of rs.
RECURSIVE SummaryAfter(_, _)
SummaryAfter(rs, k) == IF k = 0 THEN EmptyDict ELSE Count(SummaryAfter(rs, k - 1), rs[k])

\* build_summary: one pass over the results, in their order.
build_summary(rs) == SummaryAfter(rs, Len(rs))

\* ------------------------------------------------------------------- Init
EngineStart(n) ==
    /\ pc = [i \in Entries |-> IF i <= n THEN "created" ELSE "absent"]
    /\ attempt = [i \in Entries |-> 0]
    /\ err = [i \in Entries |-> None]
    /\ dns = [i \in Entries |-> None]
    /\ tcp = [i \in Entries |-> None]
    /\ remaining = [i \in Entries |-> 0]
    /\ backoff = [i \in Entries |-> None]
    /\ tries = [i \in Entries |-> [dns |-> 0, tcp |-> 0, http |-> 0]]
    /\ faults = [i \in Entries |-> None]
    /\ since_last = Delay
    /\ grants = [by |-> <<>>, gap |-> None]
    /\ gets = [i \in Entries |-> NoGets]
    /\ done_queue = <<>>
    /\ results = <<>>
    /\ main_pc = "collecting"
    /\ summary = None

\* The batch of NumEntries entries.
EngineInit == EngineStart(NumEntries)

\* The functions that are run on their own are idle.
ClassifierIdle == cr = None /\ verdict = <<>>
AggregatorIdle == batch = <<>> /\ reordered = <<>> /\ built = <<None, None>>
DetectorIdle ==
    /\ given = [body |-> <<>>, headers |-> <<>>]
    /\ page = given
    /\ grown = "no"
    /\ found = <<>>
    /\ found_grown = None
LoaderIdle ==
    /\ file = <<>>
    /\ current_group = <<"Ungrouped">>
    /\ entries = <<>>
    /\ load_pc = "reading"
CliIdle ==
    /\ args = None
    /\ config = None
    /\ cli_pc = "parsed"
WebIdle ==
    /\ active_checks = <<>>
    /\ tasks = <<>>
    /\ clock = 1
    /\ loop_running = FALSE
    /\ response = None
AloneIdle == ClassifierIdle /\ AggregatorIdle /\ DetectorIdle /\ LoaderIdle /\ CliIdle /\ WebIdle

\* A batch of NumEntries entries under a configuration whose pool has room
\* for every request (config.concurrency is 30 unless configured).
Init ==
    /\ EngineInit
    /\ retries = Retries
    /\ concurrency = NumEntries
    /\ AloneIdle

\* ---------------------------------------------------------------- actions
\* check_url returns r (or raises f): the task is finished, its locals are
\* gone, and as_completed will hand its outcome to main.
TaskEnds(i, outcome) ==
    /\ pc' = [pc EXCEPT ![i] = IF outcome.raised THEN "raised" ELSE "terminal"]
    /\ done_queue' = Append(done_queue, outcome)
    /\ dns' = [dns EXCEPT ![i] = None]
    /\ tcp' = [tcp EXCEPT ![i] = None]
    /\ err' = [err EXCEPT ![i] = None]
    /\ attempt' = [attempt EXCEPT ![i] = 0]

\* Mutant: check_url hands its result to main as soon as the DNS stage has
\* found an address, and then goes on.
DnsReturnsPublishes(i, d) ==
    IF d[1] = None
    THEN /\ TaskEnds(i, Returned(i, DnsFailedResult(i, d)))
         /\ UNCHANGED <<tries, limVars>>
    ELSE /\ dns' = [dns EXCEPT ![i] = d]
         /\ pc' = [pc EXCEPT ![i] = "tcp"]
         /\ attempt' = [attempt EXCEPT ![i] = 0]
         /\ tries' = [tries EXCEPT ![i].tcp = @ + 1]
         /\ err' = [err EXCEPT ![i] = None]
         /\ done_queue' = Append(done_queue, Returned(i, DnsFailedResult(i, d)))
         /\ UNCHANGED <<tcp, limVars>>

\* Mutant: check_url has no `if not dns_ip` return, the TCP stage follows the
\* DNS stage whatever it returned.
DnsReturnsNoShortCircuit(i, d) ==
    /\ dns' = [dns EXCEPT ![i] = d]
    /\ pc' = [pc EXCEPT ![i] = "tcp"]
    /\ attempt' = [attempt EXCEPT ![i] = 0]
    /\ tries' = [tries EXCEPT ![i].tcp = @ + 1]
    /\ err' = [err EXCEPT ![i] = None]
    /\ UNCHANGED <<tcp, done_queue, limVars>>

\* check_url after `await async_dns_lookup(...)` returned d: `if not dns_ip`
\* returns the short result, otherwise the first TCP attempt starts.
DnsReturns(i, d) ==
    IF d[1] = None
    THEN /\ TaskEnds(i, Returned(i, DnsFailedResult(i, d)))
         /\ UNCHANGED <<tries, limVars>>
    ELSE /\ dns' = [dns EXCEPT ![i] = d]
         /\ pc' = [pc EXCEPT ![i] = "tcp"]
         /\ attempt' = [attempt EXCEPT ![i] = 0]
         /\ tries' = [tries EXCEPT ![i].tcp = @ + 1]
         /\ err' = [err EXCEPT ![i] = None]
         /\ UNCHANGED <<tcp, done_queue, limVars>>

\* Mutant: a failed TCP stage ends the pipeline, as a failed DNS stage does.
TcpReturnsShortCircuit(i, t) ==
    IF t[1] = Some(FALSE)
    THEN /\ TaskEnds(i, Returned(i, FullResult(i, dns[i], t, <<None, None, FALSE, None>>)))
         /\ UNCHANGED <<tries, limVars>>
    ELSE /\ tcp' = [tcp EXCEPT ![i] = t]
         /\ err' = [err EXCEPT ![i] = None]
         /\ HttpIteration(i, 0)
         /\ UNCHANGED <<dns, done_queue>>

\* check_url after `await async_tcp_check(...)` returned t: the HTTP stage
\* follows whatever t is.
TcpReturns(i, t) ==
    /\ tcp' = [tcp EXCEPT ![i] = t]
    /\ err' = [err EXCEPT ![i] = None]
    /\ HttpIteration(i, 0)
    /\ UNCHANGED <<dns, done_queue>>

\* check_url after `await async_http_check(...)` returned h: the full result.
HttpReturns(i, h) ==
    /\ TaskEnds(i, Returned(i, FullResult(i, dns[i], tcp[i], h)))
    /\ UNCHANGED <<tries, limVars>>

\* as_completed schedules task i: check_url runs to its first await, the
\* first DNS attempt.
Start(i) ==
    /\ main_pc = "collecting"
    /\ pc[i] = "created"
    /\ pc' = [pc EXCEPT ![i] = "dns"]
    /\ attempt' = [attempt EXCEPT ![i] = 0]
    /\ tries' = [tries EXCEPT ![i].dns = @ + 1]
    /\ UNCHANGED <<err, dns, tcp, backoff, faults, limVars, mainVars>>
    /\ UNCHANGED offEngine

\* The awaited resolver.gethostbyname of pipeline i completes.
DnsAttempt(i) ==
    /\ pc[i] = "dns"
    /\ \E o \in DnsOutcomes :
        IF o.kind = "ok"
        THEN \* return ans.addresses[0], None, latency
             /\ faults' = [faults EXCEPT ![i] = None]
             /\ DnsReturns(i, <<Some("ip"), None, Some("lat")>>)
             /\ UNCHANGED backoff
        ELSE /\ faults' = [faults EXCEPT ![i] = Some(o.fault)]
             /\ IF ~Catches(o.fault)
                THEN /\ TaskEnds(i, Raised(i, o.fault))
                     /\ UNCHANGED <<tries, backoff, limVars>>
                ELSE LET e == Some(ErrText("DNS", o.fault)) IN
                     IF Exhausted(attempt[i])
                     THEN \* return None, err, None
                          /\ DnsReturns(i, <<None, e, None>>)
                          /\ UNCHANGED backoff
                     ELSE /\ err' = [err EXCEPT ![i] = e]
                          /\ pc' = [pc EXCEPT ![i] = "dns_backoff"]
                          /\ backoff' = [backoff EXCEPT ![i] = Some(BackoffBase(20, attempt[i]))]
                          /\ UNCHANGED <<dns, tcp, attempt, tries, done_queue, limVars>>
    /\ UNCHANGED <<results, main_pc>>
    /\ UNCHANGED offEngine

\* The backoff sleep of the DNS loop ends: the next attempt starts.
DnsRetry(i) ==
    /\ pc[i] = "dns_backoff"
    /\ pc' = [pc EXCEPT ![i] = "dns"]
    /\ attempt' = [attempt EXCEPT ![i] = @ + 1]
    /\ tries' = [tries EXCEPT ![i].dns = @ + 1]
    /\ backoff' = [backoff EXCEPT ![i] = None]
    /\ UNCHANGED <<err, dns, tcp, faults, limVars, mainVars>>
    /\ UNCHANGED offEngine

\* The awaited open_connection (or wait_closed) of pipeline i completes.
TcpAttempt(i) ==
    /\ pc[i] = "tcp"
    /\ \E o \in TcpOutcomes :
        IF o.kind = "ok"
        THEN \* return True, None, latency
             /\ faults' = [faults EXCEPT ![i] = None]
             /\ TcpReturns(i, <<Some(TRUE), None, Some("lat")>>)
             /\ UNCHANGED backoff
        ELSE /\ faults' = [faults EXCEPT ![i] = Some(o.fault)]
             /\ IF ~Catches(o.fault)
                THEN /\ TaskEnds(i, Raised(i, o.fault))
                     /\ UNCHANGED <<tries, backoff, limVars>>
                ELSE LET e == Some(ErrText("TCP", o.fault)) IN
                     IF Exhausted(attempt[i])
                     THEN \* return False, err, None
                          /\ TcpReturns(i, <<Some(FALSE), e, None>>)
                          /\ UNCHANGED backoff
                     ELSE /\ err' = [err EXCEPT ![i] = e]
                          /\ pc' = [pc EXCEPT ![i] = "tcp_backoff"]
                          /\ backoff' = [backoff EXCEPT ![i] = Some(BackoffBase(20, attempt[i]))]
                          /\ UNCHANGED <<dns, tcp, attempt, tries, done_queue, limVars>>
    /\ UNCHANGED <<results, main_pc>>
    /\ UNCHANGED offEngine

\* The backoff sleep of the TCP loop ends: the next attempt starts.
TcpRetry(i) ==
    /\ pc[i] = "tcp_backoff"
    /\ pc' = [pc EXCEPT ![i] = "tcp"]
    /\ attempt' = [attempt EXCEPT ![i] = @ + 1]
    /\ tries' = [tries EXCEPT ![i].tcp = @ + 1]
    /\ backoff' = [backoff EXCEPT ![i] = None]
    /\ UNCHANGED <<err, dns, tcp, faults, limVars, mainVars>>
    /\ UNCHANGED offEngine

\* The asyncio.sleep inside RateLimiter.wait() ends: the caller is granted.
WaitWake(i) ==
    /\ pc[i] = "limiter_sleep"
    /\ remaining[i] = 0
    /\ Grant(i)
    /\ UNCHANGED <<attempt, err, dns, tcp, backoff, tries, faults, mainVars>>
    /\ UNCHANGED offEngine

\* Mutant: a response with an error status is treated like a fault and the
\* request is sent again (raise_for_status inside the try).
HttpAttemptRetriesErrorStatus(i) ==
    /\ pc[i] \in {"http", "http_queued"}
    /\ \E o \in HttpOutcomesAt(pc[i]) :
        IF o.kind = "response" /\ (o.status < 400 \/ Exhausted(attempt[i]))
        THEN /\ faults' = [faults EXCEPT ![i] = None]
             /\ HttpReturns(i, <<Some(o.status), None, o.captcha, Some("lat")>>)
             /\ UNCHANGED backoff
        ELSE IF o.kind = "response"
        THEN /\ faults' = [faults EXCEPT ![i] = None]
             /\ err' = [err EXCEPT ![i] = Some("status")]
             /\ pc' = [pc EXCEPT ![i] = "http_backoff"]
             /\ backoff' = [backoff EXCEPT ![i] = Some(BackoffBase(30, attempt[i]))]
             /\ UNCHANGED <<dns, tcp, attempt, tries, done_queue, limVars>>
        ELSE /\ faults' = [faults EXCEPT ![i] = Some(o.fault)]
             /\ IF ~Catches(o.fault)
                THEN /\ TaskEnds(i, Raised(i, o.fault))
                     /\ UNCHANGED <<tries, backoff, limVars>>
                ELSE LET e == Some(ErrText("HTTP", o.fault)) IN
                     IF Exhausted(attempt[i])
                     THEN /\ HttpReturns(i, <<None, e, FALSE, None>>)
                          /\ UNCHANGED backoff
                     ELSE /\ err' = [err EXCEPT ![i] = e]
                          /\ pc' = [pc EXCEPT ![i] = "http_backoff"]
                          /\ backoff' = [backoff EXCEPT ![i] = Some(BackoffBase(30, attempt[i]))]
                          /\ UNCHANGED <<dns, tcp, attempt, tries, done_queue, limVars>>
    /\ UNCHANGED <<results, main_pc>>
    /\ UNCHANGED offEngine

\* The awaited session.get / resp.text of pipeline i completes.
HttpAttempt(i) ==
    /\ pc[i] \in {"http", "http_queued"}
    /\ \E o \in HttpOutcomesAt(pc[i]) :
        IF o.kind = "response"
        THEN \* return resp.status, None, captcha, latency
             /\ faults' = [faults EXCEPT ![i] = None]
             /\ HttpReturns(i, <<Some(o.status), None, o.captcha, Some("lat")>>)
             /\ UNCHANGED backoff
        ELSE /\ faults' = [faults EXCEPT ![i] = Some(o.fault)]
             /\ IF ~Catches(o.fault)
                THEN /\ TaskEnds(i, Raised(i, o.fault))
                     /\ UNCHANGED <<tries, backoff, limVars>>
                ELSE LET e == Some(ErrText("HTTP", o.fault)) IN
                     IF Exhausted(attempt[i])
                     THEN \* return None, err, False, None
                          /\ HttpReturns(i, <<None, e, FALSE, None>>)
                          /\ UNCHANGED backoff
                     ELSE /\ err' = [err EXCEPT ![i] = e]
                          /\ pc' = [pc EXCEPT ![i] = "http_backoff"]
                          /\ backoff' = [backoff EXCEPT ![i] = Some(BackoffBase(30, attempt[i]))]
                          /\ UNCHANGED <<dns, tcp, attempt, tries, done_queue, limVars>>
    /\ UNCHANGED <<results, main_pc>>
    /\ UNCHANGED offEngine

\* Mutant: rate_limiter.wait() is called once before the loop, a retry goes
\* straight to session.get.
HttpRetryUnpaced(i) ==
    /\ pc[i] = "http_backoff"
    /\ attempt' = [attempt EXCEPT ![i] = @ + 1]
    /\ tries' = [tries EXCEPT ![i].http = @ + 1]
    /\ gets' = [gets EXCEPT ![i].started = @ + 1]
    /\ pc' = [pc EXCEPT ![i] = IF InFlight < PoolLimit THEN "http" ELSE "http_queued"]
    /\ backoff' = [backoff EXCEPT ![i] = None]
    /\ UNCHANGED <<err, dns, tcp, faults, remaining, since_last, grants, mainVars>>
    /\ UNCHANGED offEngine

\* The backoff sleep of the HTTP loop ends: the next iteration calls wait().
HttpRetry(i) ==
    /\ pc[i] = "http_backoff"
    /\ HttpIteration(i, attempt[i] + 1)
    /\ backoff' = [backoff EXCEPT ![i] = None]
    /\ UNCHANGED <<err, dns, tcp, faults, mainVars>>
    /\ UNCHANGED offEngine

\* One unit of time passes.
Tick ==
    /\ \/ since_last < Delay
       \/ \E i \in Entries : remaining[i] > 0
    /\ since_last' = Min(since_last + 1, Delay)
    /\ remaining' = [i \in Entries |-> Max(remaining[i] - 1, 0)]
    /\ UNCHANGED <<pipeVars, grants, gets, mainVars>>
    /\ UNCHANGED offEngine

\* Mutant: main does not append the result of an entry whose DNS stage failed.
CollectFailuresSkipped ==
    /\ main_pc = "collecting"
    /\ done_queue # <<>>
    /\ LET t == Head(done_queue) IN
       /\ IF t.raised
          THEN /\ main_pc' = "aborted"
               /\ UNCHANGED results
          ELSE /\ results' = IF t.result.dns_ip = None THEN results
                                                       ELSE Append(results, t.result)
               /\ UNCHANGED main_pc
       /\ tries' = [tries EXCEPT ![t.task] = [dns |-> 0, tcp |-> 0, http |-> 0]]
       /\ faults' = [faults EXCEPT ![t.task] = None]
       /\ gets' = [gets EXCEPT ![t.task] = NoGets]
    /\ done_queue' = Tail(done_queue)
    /\ UNCHANGED <<pc, attempt, err, dns, tcp, backoff, remaining, since_last, grants>>
    /\ UNCHANGED offEngine

\* Mutant: main treats a result whose DNS stage failed as fatal.
CollectStopsOnFailure ==
    /\ main_pc = "collecting"
    /\ done_queue # <<>>
    /\ LET t == Head(done_queue) IN
       /\ IF t.raised \/ t.result.dns_ip = None
          THEN /\ main_pc' = "aborted"
               /\ results' = IF t.raised THEN results ELSE Append(results, t.result)
          ELSE /\ results' = Append(results, t.result)
               /\ UNCHANGED main_pc
       /\ tries' = [tries EXCEPT ![t.task] = [dns |-> 0, tcp |-> 0, http |-> 0]]
       /\ faults' = [faults EXCEPT ![t.task] = None]
       /\ gets' = [gets EXCEPT ![t.task] = NoGets]
    /\ done_queue' = Tail(done_queue)
    /\ UNCHANGED <<pc, attempt, err, dns, tcp, backoff, remaining, since_last, grants>>
    /\ UNCHANGED offEngine

\* main: `result = await coro; results.append(result)` for the next finished
\* task; an exception of the task is raised by the await and ends main.
Collect ==
    /\ main_pc = "collecting"
    /\ done_queue # <<>>
    /\ LET t == Head(done_queue) IN
       /\ IF t.raised
          THEN /\ main_pc' = "aborted"
               /\ UNCHANGED results
          ELSE /\ results' = Append(results, t.result)
               /\ UNCHANGED main_pc
       /\ tries' = [tries EXCEPT ![t.task] = [dns |-> 0, tcp |-> 0, http |-> 0]]
       /\ faults' = [faults EXCEPT ![t.task] = None]
       /\ gets' = [gets EXCEPT ![t.task] = NoGets]
    /\ done_queue' = Tail(done_queue)
    /\ UNCHANGED <<pc, attempt, err, dns, tcp, backoff, remaining, since_last, grants>>
    /\ UNCHANGED offEngine

\* main: the as_completed loop has yielded every task; the session closes
\* and `summary = build_summary(results)` follows.
Finish ==
    /\ main_pc = "collecting"
    /\ \A i \in Entries : pc[i] \in {"terminal", "raised", "absent"}
    /\ done_queue = <<>>
    /\ main_pc' = "done"
    /\ summary' = Some(build_summary(results))
    /\ UNCHANGED <<pipeVars, limVars, done_queue, results>>
    /\ UNCHANGED restVars

Next ==
    \/ \E i \in Entries : Start(i)
    \/ \E i \in Entries : DnsAttempt(i)
    \/ \E i \in Entries : DnsRetry(i)
    \/ \E i \in Entries : TcpAttempt(i)
    \/ \E i \in Entries : TcpRetry(i)
    \/ \E i \in Entries : WaitWake(i)
    \/ \E i \in Entries : HttpAttempt(i)
    \/ \E i \in Entries : HttpRetry(i)
    \/ Tick
    \/ Collect
    \/ Finish

Spec == Init /\ [][Next]_vars

\* --------------------------------------------------------- a smaller pool
\* A request that waited for a connection of the pool gets one.
HttpConnect(i) ==
    /\ pc[i] = "http_queued"
    /\ InFlight < PoolLimit
    /\ pc' = [pc EXCEPT ![i] = "http"]
    /\ UNCHANGED <<attempt, err, dns, tcp, backoff, tries, faults, limVars, mainVars>>
    /\ UNCHANGED offEngine

\* The batch under any config.concurrency from 1 up to the size of the batch.
PoolInit ==
    /\ EngineInit
    /\ retries = Retries
    /\ concurrency \in 1..NumEntries
    /\ AloneIdle

PoolNext ==
    \/ Next
    \/ \E i \in Entries : HttpConnect(i)

SpecPool == PoolInit /\ [][PoolNext]_vars

\* ----------------------------------------------------------------- fairness
\* The steps of pipeline j.
PipelineStep(j) ==
    \/ Start(j) \/ DnsAttempt(j) \/ DnsRetry(j) \/ TcpAttempt(j) \/ TcpRetry(j)
    \/ WaitWake(j) \/ HttpConnect(j) \/ HttpAttempt(j) \/ HttpRetry(j)

\* Every awaited operation completes (each attempt ends by success, error or
\* its timeout, each sleep ends), time passes, and the event loop runs every
\* coroutine that is ready.
Fairness ==
    /\ \A i \in Entries : WF_vars(PipelineStep(i))
    /\ WF_vars(Tick)
    /\ WF_vars(Collect)
    /\ WF_vars(Finish)

FairSpec == PoolInit /\ [][PoolNext]_vars /\ Fairness

\* The batches the fair runs start from: a batch of one entry under any
\* config.retries up to MaxRetries, and the batch of NumEntries entries without
\* retries; config.concurrency is anything from 1 up to the size of the batch.
FairRetries(n) == IF n = 1 THEN 0..MaxRetries ELSE {0}

FairInit ==
    /\ \E n \in 1..NumEntries :
          /\ EngineStart(n)
          /\ retries \in FairRetries(n)
          /\ concurrency \in 1..n
    /\ AloneIdle

FairSpecBatches == FairInit /\ [][PoolNext]_vars /\ Fairness

\* ------------------------------------------------------ one pipeline alone
\* The first pipeline of the batch runs while the others have not been
\* scheduled yet, under any config.retries up to MaxRetries.
SoloInit ==
    /\ EngineInit
    /\ retries \in 0..MaxRetries
    /\ concurrency = NumEntries
    /\ AloneIdle

SoloNext ==
    \/ Start(1)
    \/ DnsAttempt(1)
    \/ DnsRetry(1)
    \/ TcpAttempt(1)
    \/ TcpRetry(1)
    \/ WaitWake(1)
    \/ HttpAttempt(1)
    \/ HttpRetry(1)
    \/ Tick
    \/ Collect

SpecSolo == SoloInit /\ [][SoloNext]_vars

\* =========================================================== the classifier
\* Every value the fields colorize reads can take, whether or not a pipeline
\* produces the combination.
AnyCheckResult ==
    { CheckResult("A", 1, 1, ip, None, None, ok, None, None, st, he, None, ca) :
        ip \in {None, Some("ip")},
        ok \in {None, Some(TRUE), Some(FALSE)},
        st \in {None, Some(0), Some(200), Some(399), Some(400), Some(503)},
        he \in {None, Some("refused")},
        ca \in BOOLEAN }

\* The classifier is called at most MaxCalls times on one result.
MaxCalls == 2

ClassifyInit ==
    /\ EngineInit
    /\ retries = Retries
    /\ concurrency = NumEntries
    /\ WebIdle
    /\ CliIdle
    /\ LoaderIdle
    /\ AggregatorIdle
    /\ DetectorIdle
    /\ cr \in {Some(r) : r \in AnyCheckResult}
    /\ verdict = <<>>

\* One call colorize(cr).
Classify ==
    /\ cr # None
    /\ Len(verdict) < MaxCalls
    /\ verdict' = Append(verdict, colorize(Val(cr)))
    /\ UNCHANGED <<cr, notCls>>

ClassifyNext == Classify

SpecClassify == ClassifyInit /\ [][ClassifyNext]_vars

\* =========================================================== the aggregator
\* The group labels of the results handed to build_summary.
Groups == {"A", "B"}

\* build_summary is handed at most MaxResults results.
MaxResults == 3

\* One result of each classification in each group: a healthy one, a
\* challenged one and one whose DNS stage failed.
SummaryResults ==
    UNION { { CheckResult(g, 1, 1, Some("ip"), None, None, Some(TRUE), None, None, Some(200), None, None, FALSE),
              CheckResult(g, 2, 2, Some("ip"), None, None, Some(TRUE), None, None, Some(200), None, None, TRUE),
              CheckResult(g, 3, 3, None, Some("refused"), None, None, None, None, None, None, None, FALSE) } : g \in Groups }

SeqsUpTo(S, n) == UNION {[1..k -> S] : k \in 0..n}

SummaryInit ==
    /\ EngineInit
    /\ retries = Retries
    /\ concurrency = NumEntries
    /\ WebIdle
    /\ CliIdle
    /\ LoaderIdle
    /\ ClassifierIdle
    /\ DetectorIdle
    /\ batch \in SeqsUpTo(SummaryResults, MaxResults)
    /\ reordered = batch
    /\ built = <<None, None>>

\* The results reach the aggregator in another order: two neighbours swap.
Reorder(k) ==
    /\ k \in 1..(Len(reordered) - 1)
    /\ reordered[k] # reordered[k + 1]
    /\ reordered' = [reordered EXCEPT ![k] = reordered[k + 1], ![k + 1] = reordered[k]]
    /\ UNCHANGED <<batch, built, notSum>>

\* build_summary(batch) is called.
SummarizeBatch ==
    /\ built[1] = None
    /\ built' = [built EXCEPT ![1] = Some([of |-> batch, is |-> build_summary(batch)])]
    /\ UNCHANGED <<batch, reordered, notSum>>

\* build_summary(reordered) is called.
SummarizeReordered ==
    /\ built' = [built EXCEPT ![2] = Some([of |-> reordered, is |-> build_summary(reordered)])]
    /\ UNCHANGED <<batch, reordered, notSum>>

SummaryNext ==
    \/ \E k \in 1..(MaxResults - 1) : Reorder(k)
    \/ SummarizeBatch
    \/ SummarizeReordered

SpecSummary == SummaryInit /\ [][SummaryNext]_vars

\* ============================================================= the detector
\* Text is kept as a sequence of pieces, each a run of characters; the pieces
\* are chosen so that a marker can only begin and end where a piece does.
\* The markers of detect_captcha, piece by piece.
markers ==
    { <<"captcha">>, <<"re", "captcha">>, <<"h", "captcha">>, <<"cloudflare">>,
      <<"/cdn-cgi/challenge-platform">>, <<"cf-chl">>, <<"cf-ray">>,
      <<"access", " ", "denied">>, <<"rate", " ", "limit">>,
      <<"too", " ", "many", " ", "requests">>,
      <<"human", " ", "verification">>, <<"security", " ", "check">> }

\* The pieces a response body and a header value are made of.
Pieces == {"CAPTCHA", "Rate", "limit", "x"}

\* The names of the headers of a response.
HeaderNames == {"Limit", "x", "Server"}

\* A body has at most MaxBody pieces, a header value at most MaxValue, and a
\* response at most MaxHeaders headers.
MaxBody == 2
MaxValue == 1
MaxHeaders == 2

\* str.lower() of one piece, and of a text.
LowerPiece(c) ==
    CASE c = "CAPTCHA" -> "captcha"
      [] c = "Rate" -> "rate"
      [] c = "Limit" -> "limit"
      [] c = "Server" -> "server"
      [] c = "Full URL" -> "full url"
      [] OTHER -> c

Lower(t) == [k \in 1..Len(t) |-> LowerPiece(t[k])]

\* `m in t` for two texts.
In(m, t) == \E q \in 0..(Len(t) - Len(m)) : SubSeq(t, q + 1, q + Len(m)) = m

\* f"{k}:{v}".lower() for the header h = <<k, v>>.
HeaderText(h) == Lower(<<h[1], ":">> \o h[2])

\* " ".join of the texts of the first k headers of hs.
RECURSIVE JoinUpTo(_, _)
JoinUpTo(hs, k) ==
    IF k = 0 THEN <<>>
    ELSE IF k = 1 THEN HeaderText(hs[1])
    ELSE JoinUpTo(hs, k - 1) \o <<" ">> \o HeaderText(hs[k])

\* Mutant: the body and the headers are not lower-cased.
RECURSIVE RawJoinUpTo(_, _)
RawJoinUpTo(hs, k) ==
    IF k = 0 THEN <<>>
    ELSE IF k = 1 THEN <<hs[1][1], ":">> \o hs[1][2]
    ELSE RawJoinUpTo(hs, k - 1) \o <<" ">> \o <<hs[k][1], ":">> \o hs[k][2]

detect_captchaCaseSensitive(text, headers) ==
    \E m \in markers : In(m, text) \/ In(m, RawJoinUpTo(headers, Len(headers)))

\* detect_captcha: headers is the dict of the response headers, in its order.
detect_captcha(text, headers) ==
    LET lower      == Lower(text)
        header_str == JoinUpTo(headers, Len(headers))
    IN \E m \in markers : In(m, lower) \/ In(m, header_str)

\* The dicts of at most n headers: the names differ, the order is kept.
HeaderDicts(n) ==
    { hs \in SeqsUpTo(HeaderNames \X SeqsUpTo(Pieces, MaxValue), n) :
        \A a, b \in 1..Len(hs) : a # b => hs[a][1] # hs[b][1] }

DetectInit ==
    /\ EngineInit
    /\ retries = Retries
    /\ concurrency = NumEntries
    /\ WebIdle
    /\ CliIdle
    /\ LoaderIdle
    /\ ClassifierIdle
    /\ AggregatorIdle
    /\ given \in [body : SeqsUpTo(Pieces, MaxBody), headers : HeaderDicts(MaxHeaders)]
    /\ page = given
    /\ grown = "no"
    /\ found = <<>>
    /\ found_grown = None

\* One call detect_captcha(text, headers) on the response as given.
DetectCaptcha ==
    /\ grown = "no"
    /\ Len(found) < MaxCalls
    /\ found' = Append(found, detect_captcha(given.body, given.headers))
    /\ UNCHANGED <<given, page, grown, found_grown, notCap>>

\* The same response with one more piece of text at the start or at the end
\* of its body.
GrowBody(c, front) ==
    /\ grown = "no"
    /\ Len(found) = MaxCalls
    /\ page' = [page EXCEPT !.body = IF front THEN <<c>> \o @ ELSE Append(@, c)]
    /\ grown' = "body"
    /\ UNCHANGED <<given, found, found_grown, notCap>>

\* The same response with one more header, after those it has.
AddHeader(k, v) ==
    /\ grown = "no"
    /\ Len(found) = MaxCalls
    /\ \A j \in 1..Len(page.headers) : page.headers[j][1] # k
    /\ page' = [page EXCEPT !.headers = Append(@, <<k, v>>)]
    /\ grown' = "header_new"
    /\ UNCHANGED <<given, found, found_grown, notCap>>

\* The same response with one more piece of text at the end of the value of
\* its j-th header.
GrowHeader(j, c) ==
    /\ grown = "no"
    /\ Len(found) = MaxCalls
    /\ j \in 1..Len(page.headers)
    /\ page' = [page EXCEPT !.headers[j] = <<@[1], Append(@[2], c)>>]
    /\ grown' = "header_value"
    /\ UNCHANGED <<given, found, found_grown, notCap>>

\* One call detect_captcha(text, headers) on the response with the added text.
DetectGrown ==
    /\ grown # "no"
    /\ found_grown = None
    /\ found_grown' = Some(detect_captcha(page.body, page.headers))
    /\ UNCHANGED <<given, page, grown, found, notCap>>

DetectNext ==
    \/ DetectCaptcha
    \/ \E c \in Pieces, front \in BOOLEAN : GrowBody(c, front)
    \/ \E k \in HeaderNames, v \in SeqsUpTo(Pieces, MaxValue) : AddHeader(k, v)
    \/ \E j \in 1..MaxHeaders, c \in Pieces : GrowHeader(j, c)
    \/ DetectGrown

SpecDetect == DetectInit /\ [][DetectNext]_vars

\* ============================================================== the loader
\* A line is a sequence of pieces: the words "Full URL", a colon, a blank, a
\* host name and an opening bracket.
LineChars == {"Full URL", ":", " ", "h", "["}

\* A line has at most MaxLine pieces, and a file at most MaxLines lines and
\* MaxFile pieces in all.
MaxLine == 3
MaxLines == 3
MaxFile == 6

\* The number of pieces of the lines of f.
RECURSIVE FileSize(_)
FileSize(f) == IF f = <<>> THEN 0 ELSE Len(Head(f)) + FileSize(Tail(f))

\* str.strip().
RECURSIVE Strip(_)
Strip(t) ==
    IF t = <<>> THEN t
    ELSE IF Head(t) = " " THEN Strip(Tail(t))
    ELSE IF t[Len(t)] = " " THEN Strip(SubSeq(t, 1, Len(t) - 1))
    ELSE t

\* str.startswith.
StartsWith(t, p) == Len(t) >= Len(p) /\ SubSeq(t, 1, Len(p)) = p

\* `":" in t`, and the two parts of t.split(":", 1).
HasColon(t) == \E k \in 1..Len(t) : t[k] = ":"
FirstColon(t) == CHOOSE k \in 1..Len(t) : t[k] = ":" /\ \A j \in 1..(k - 1) : t[j] # ":"
BeforeColon(t) == IF HasColon(t) THEN SubSeq(t, 1, FirstColon(t) - 1) ELSE t
AfterColon(t) == IF HasColon(t) THEN SubSeq(t, FirstColon(t) + 1, Len(t)) ELSE <<>>

\* " ".join(raw.split()) of a stripped text: runs of blanks become one blank.
RECURSIVE JoinSplit(_)
JoinSplit(t) ==
    IF Len(t) < 2 THEN t
    ELSE IF t[1] = " " /\ t[2] = " " THEN JoinSplit(Tail(t))
    ELSE <<t[1]>> \o JoinSplit(Tail(t))

\* raw.replace(" :", ":") and raw.replace(": ", ":").
RECURSIVE ReplaceBlankColon(_)
ReplaceBlankColon(t) ==
    IF Len(t) < 2 THEN t
    ELSE IF t[1] = " " /\ t[2] = ":" THEN <<":">> \o ReplaceBlankColon(Tail(Tail(t)))
    ELSE <<t[1]>> \o ReplaceBlankColon(Tail(t))

RECURSIVE ReplaceColonBlank(_)
ReplaceColonBlank(t) ==
    IF Len(t) < 2 THEN t
    ELSE IF t[1] = ":" /\ t[2] = " " THEN <<":">> \o ReplaceColonBlank(Tail(Tail(t)))
    ELSE <<t[1]>> \o ReplaceColonBlank(Tail(t))

\* normalize_url up to the scheme: the cleaned text, with https:// in front
\* unless it has a scheme.
Cleaned(raw) == ReplaceColonBlank(ReplaceBlankColon(JoinSplit(Strip(raw))))
WithScheme(raw) ==
    IF Cleaned(raw) # <<>> /\ Cleaned(raw)[1] \in {"http://", "https://"}
    THEN Cleaned(raw)
    ELSE <<"https://">> \o Cleaned(raw)

\* urlparse of scheme://netloc: the netloc, and parsed.hostname (what is
\* before the first colon, lower-cased, None when empty).
Netloc(u) == Tail(u)
Hostname(u) == Lower(BeforeColon(Netloc(u)))

\* urlparse raises ValueError for a netloc with an opening bracket and no
\* closing one; parsed.port raises ValueError for a port that is no number.
UrlparseRaises(u) == \E k \in 1..Len(Netloc(u)) : Netloc(u)[k] = "["
PortRaises(u) == AfterColon(Netloc(u)) # <<>>

\* normalize_url lets the ValueError of urlparse through.
normalize_urlRaises(raw) == Strip(raw) # <<>> /\ UrlparseRaises(WithScheme(raw))

\* normalize_url(raw), when it returns.
normalize_url(raw) ==
    IF Strip(raw) = <<>> THEN None
    ELSE LET u == WithScheme(raw) IN
         IF PortRaises(u)
         THEN IF Hostname(u) = <<>> THEN None
              ELSE Some(<<u[1]>> \o Hostname(u))
         ELSE IF Hostname(u) = <<>> THEN None ELSE Some(u)

\* Mutant: every line with a colon is a group header.
IsGroupHeaderAnyColon(stripped) == HasColon(stripped)

\* `":" in stripped and not stripped.lower().startswith("full url")`.
IsGroupHeader(stripped) ==
    HasColon(stripped) /\ ~StartsWith(Lower(stripped), <<"full url">>)

\* `stripped.lower().startswith("full url:")`.
IsUrlLine(stripped) == StartsWith(Lower(stripped), <<"full url", ":">>)

LoadInit ==
    /\ EngineInit
    /\ retries = Retries
    /\ concurrency = NumEntries
    /\ WebIdle
    /\ CliIdle
    /\ ClassifierIdle
    /\ AggregatorIdle
    /\ DetectorIdle
    /\ LoaderIdle

\* One iteration of `for line in f`.
ReadLine(line) ==
    /\ load_pc = "reading"
    /\ Len(file) < MaxLines
    /\ FileSize(file) + Len(line) <= MaxFile
    /\ file' = Append(file, line)
    /\ LET stripped == Strip(line)
           group == IF IsGroupHeader(stripped) THEN stripped ELSE current_group
           raw == Strip(AfterColon(stripped))
       IN /\ current_group' = group
          /\ IF IsUrlLine(stripped)
             THEN IF normalize_urlRaises(raw)
                  THEN \* except Exception: sys.exit(1)
                       /\ load_pc' = "exited"
                       /\ UNCHANGED entries
                  ELSE /\ entries' = IF normalize_url(raw) # None
                                     THEN Append(entries, [group |-> group, original |-> stripped, raw |-> raw, url |-> Val(normalize_url(raw))])
                                     ELSE entries
                       /\ UNCHANGED load_pc
             ELSE UNCHANGED <<entries, load_pc>>
    /\ UNCHANGED notLoad

\* The file has no more lines: return entries.
EndOfFile ==
    /\ load_pc = "reading"
    /\ load_pc' = "returned"
    /\ UNCHANGED <<file, current_group, entries, notLoad>>

LoadNext ==
    \/ \E line \in SeqsUpTo(LineChars, MaxLine) : ReadLine(line)
    \/ EndOfFile

SpecLoad == LoadInit /\ [][LoadNext]_vars

\* ======================================================== the command line
\* Config(): the defaults of the dataclass (times in tenths of a second).
Config ==
    [concurrency |-> 30, retries |-> 3, http_timeout |-> 100, rate_limit_delay |-> 1,
     ssl_verify |-> TRUE, error_only |-> FALSE, verbose |-> FALSE]

\* Config.from_file: the defaults, or what a file sets.
ConfigFiles == {Config, [Config EXCEPT !.concurrency = 5, !.retries = 1, !.rate_limit_delay = 5]}

\* A numeric option is absent (None) or a number up to MaxArg.
MaxArg == 2
Option == {None} \cup {Some(v) : v \in 0..MaxArg}

\* `if args.x:` for an option of type int or float: absent and 0 are false.
Given(x) == Truthy(x)

\* parse_args() has returned and the configuration is loaded.
CliInit ==
    /\ EngineInit
    /\ retries = Retries
    /\ concurrency = NumEntries
    /\ WebIdle
    /\ ClassifierIdle
    /\ AggregatorIdle
    /\ DetectorIdle
    /\ LoaderIdle
    /\ args \in {Some(a) : a \in [concurrency : Option, retries : Option, timeout : Option, rate_limit : Option,
                                   no_ssl_verify : BOOLEAN, error_only : BOOLEAN, verbose : BOOLEAN]}
    /\ config \in {Some(c) : c \in ConfigFiles}
    /\ cli_pc = "parsed"

\* main, "Override with CLI arguments".
Override ==
    /\ cli_pc = "parsed"
    /\ args # None
    /\ LET a == Val(args)
           c == Val(config)
       IN config' = Some([concurrency      |-> IF Given(a.concurrency) THEN Val(a.concurrency) ELSE c.concurrency,
                          retries          |-> IF Given(a.retries) THEN Val(a.retries) ELSE c.retries,
                          http_timeout     |-> IF Given(a.timeout) THEN Val(a.timeout) ELSE c.http_timeout,
                          rate_limit_delay |-> IF Given(a.rate_limit) THEN Val(a.rate_limit) ELSE c.rate_limit_delay,
                          ssl_verify       |-> IF a.no_ssl_verify THEN FALSE ELSE c.ssl_verify,
                          error_only       |-> IF a.error_only THEN TRUE ELSE c.error_only,
                          verbose          |-> IF a.verbose THEN TRUE ELSE c.verbose])
    /\ cli_pc' = "configured"
    /\ UNCHANGED <<args, notCli>>

CliNext == Override

SpecCli == CliInit /\ [][CliNext]_vars

\* ======================================================= the web front-end
\* The clock shows at most MaxClock different milliseconds, at most MaxStarts
\* run_check tasks are created, and a check has at most MaxUrls entries.
MaxClock == 2
MaxStarts == 2
MaxUrls == 2

\* check_id = f"check_{int(time.time() * 1000)}".
CheckIds == 1..MaxClock

\* What check_url gives for an entry in the web front-end: a healthy result, a
\* result whose DNS stage failed, or an exception.
WebResults ==
    { CheckResult("A", 1, 1, Some("ip"), None, None, Some(TRUE), None, None, Some(200), None, None, FALSE),
      CheckResult("A", 2, 2, None, Some("refused"), None, None, None, None, None, None, None, FALSE) }
WebOutcomes == {[raised |-> FALSE, result |-> r] : r \in WebResults} \cup {[raised |-> TRUE]}

\* The record start_check stores (summary, report_path and error are keys
\* added later).
NewCheck ==
    [status |-> "running", progress |-> 0, total |-> 0, results |-> <<>>,
     summary |-> None, report_path |-> None, error |-> None]

\* A run_check task as asyncio.create_task creates it.
NewTask(check_id) ==
    [check_id |-> check_id, pc |-> "scheduled", entries |-> 0, ready |-> <<>>, results |-> <<>>]

Answer(route, code, check_id) == [route |-> route, code |-> code, check_id |-> check_id]

\* The server is started: no check yet, and requests are served either by a
\* thread with a running event loop or, as under app.run, by one without.
WebInit ==
    /\ EngineInit
    /\ retries = Retries
    /\ concurrency = NumEntries
    /\ ClassifierIdle
    /\ AggregatorIdle
    /\ DetectorIdle
    /\ LoaderIdle
    /\ CliIdle
    /\ active_checks = [id \in CheckIds |-> None]
    /\ tasks = <<>>
    /\ clock = 1
    /\ loop_running \in BOOLEAN
    /\ response = None

\* The millisecond changes.
ClockTick ==
    /\ clock < MaxClock
    /\ clock' = clock + 1
    /\ UNCHANGED <<active_checks, tasks, loop_running, response, notWeb>>

\* POST /api/check.  A malformed number in the request raises before anything
\* is stored; otherwise the record is stored under the id of this millisecond
\* and asyncio.create_task creates the task, or raises RuntimeError when no
\* event loop is running.
start_check(malformed) ==
    /\ IF malformed
       THEN /\ response' = Some(Answer("check", 400, None))
            /\ UNCHANGED <<active_checks, tasks>>
       ELSE LET check_id == clock IN
            /\ active_checks' = [active_checks EXCEPT ![check_id] = Some(NewCheck)]
            /\ IF loop_running
               THEN /\ Len(tasks) < MaxStarts
                    /\ tasks' = Append(tasks, NewTask(check_id))
                    /\ response' = Some(Answer("check", 200, Some(check_id)))
               ELSE /\ response' = Some(Answer("check", 400, Some(check_id)))
                    /\ UNCHANGED tasks
    /\ UNCHANGED <<clock, loop_running, notWeb>>

\* active_checks[check_id][key] = value.
SetKeys(check_id, changed) ==
    [active_checks EXCEPT ![check_id] = Some([key \in DOMAIN Val(@) |->
        IF key \in DOMAIN changed THEN changed[key] ELSE Val(@)[key]])]

\* run_check from its start to the first `await coro`: load_urls returns n
\* entries.
RunCheckLoad(k, n) ==
    /\ tasks[k].pc = "scheduled"
    /\ active_checks' = SetKeys(tasks[k].check_id, [total |-> n])
    /\ tasks' = [tasks EXCEPT ![k].entries = n,
                               ![k].pc = IF n = 0 THEN "exporting" ELSE "collecting"]
    /\ UNCHANGED <<clock, loop_running, response, notWeb>>

\* load_urls ends in sys.exit(1): SystemExit is no Exception, the task ends
\* with it.
RunCheckLoadExits(k) ==
    /\ tasks[k].pc = "scheduled"
    /\ tasks' = [tasks EXCEPT ![k].pc = "exited"]
    /\ UNCHANGED <<active_checks, clock, loop_running, response, notWeb>>

\* The pipelines of task k that have not ended yet.
Running(k) == tasks[k].entries - Len(tasks[k].results) - Len(tasks[k].ready)

\* One check_url of task k ends; as_completed will hand its outcome over.
PipelineEnds(k, o) ==
    /\ tasks[k].pc = "collecting"
    /\ Running(k) > 0
    /\ tasks' = [tasks EXCEPT ![k].ready = Append(@, o)]
    /\ UNCHANGED <<active_checks, clock, loop_running, response, notWeb>>

\* `active_checks[check_id]['progress'] = i + 1`.
ProgressAfter(k) == Len(tasks[k].results) + 1

\* `result = await coro` returns or raises: one iteration of the loop, or the
\* except clause.
RunCheckCollect(k) ==
    /\ tasks[k].pc = "collecting"
    /\ tasks[k].ready # <<>>
    /\ LET o == Head(tasks[k].ready)
           id == tasks[k].check_id
       IN IF o.raised
          THEN /\ active_checks' = SetKeys(id, [status |-> "error", error |-> Some("raised")])
               /\ tasks' = [tasks EXCEPT ![k].ready = Tail(@), ![k].pc = "finished"]
          ELSE /\ active_checks' = SetKeys(id, [progress |-> ProgressAfter(k),
                                                 results |-> Append(Val(active_checks[id]).results, o.result)])
               /\ tasks' = [tasks EXCEPT ![k].ready = Tail(@),
                                          ![k].results = Append(@, o.result),
                                          ![k].pc = IF ProgressAfter(k) = tasks[k].entries
                                                    THEN "exporting" ELSE "collecting"]
    /\ UNCHANGED <<clock, loop_running, response, notWeb>>

\* After the loop: build_summary and the three exports, which write files and
\* may raise; then the status update, or the except clause.
RunCheckExport(k, written) ==
    /\ tasks[k].pc = "exporting"
    /\ active_checks' =
          IF written
          THEN SetKeys(tasks[k].check_id, [status |-> "completed",
                                           summary |-> Some(build_summary(tasks[k].results)),
                                           report_path |-> Some(tasks[k].check_id)])
          ELSE SetKeys(tasks[k].check_id, [status |-> "error", error |-> Some("export")])
    /\ tasks' = [tasks EXCEPT ![k].pc = "finished"]
    /\ UNCHANGED <<clock, loop_running, response, notWeb>>

\* GET /api/status/<check_id>.
check_status(check_id) ==
    /\ response' = Some(Answer("status", IF active_checks[check_id] = None THEN 404 ELSE 200, Some(check_id)))
    /\ UNCHANGED <<active_checks, tasks, clock, loop_running, notWeb>>

\* The status code of GET /api/download/<check_id>/<format>, for a format
\* that is valid or not and a report file that exists or not.
download_code(check_id, valid, exists) ==
    IF active_checks[check_id] = None THEN 404
    ELSE IF Val(active_checks[check_id]).status # "completed" THEN 400
    ELSE IF ~valid THEN 400
    ELSE IF ~exists THEN 404
    ELSE 200

\* GET /api/download/<check_id>/<format>.
download_report(check_id, valid, exists) ==
    /\ response' = Some(Answer("download", download_code(check_id, valid, exists), Some(check_id)))
    /\ UNCHANGED <<active_checks, tasks, clock, loop_running, notWeb>>

WebNext ==
    \/ ClockTick
    \/ \E malformed \in BOOLEAN : start_check(malformed)
    \/ \E k \in 1..Len(tasks) :
          \/ \E n \in 0..MaxUrls : RunCheckLoad(k, n)
          \/ RunCheckLoadExits(k)
          \/ \E o \in WebOutcomes : PipelineEnds(k, o)
          \/ RunCheckCollect(k)
          \/ \E written \in BOOLEAN : RunCheckExport(k, written)
    \/ \E check_id \in CheckIds : check_status(check_id)
    \/ \E check_id \in CheckIds, valid \in BOOLEAN, exists \in BOOLEAN : download_report(check_id, valid, exists)

SpecWeb == WebInit /\ [][WebNext]_vars

\* The event loop runs every task it holds: a created run_check task gets its
\* next step, and every check_url it started ends (the pipelines terminate).
TaskStep(k) ==
    /\ k \in 1..Len(tasks)
    /\ \/ \E n \in 0..MaxUrls : RunCheckLoad(k, n)
       \/ RunCheckLoadExits(k)
       \/ \E o \in WebOutcomes : PipelineEnds(k, o)
       \/ RunCheckCollect(k)
       \/ \E written \in BOOLEAN : RunCheckExport(k, written)

WebFairness == \A k \in 1..MaxStarts : WF_vars(TaskStep(k))

FairSpecWeb == WebInit /\ [][WebNext]_vars /\ WebFairness

\* ==================================================================== claims
\* The Check Results produced so far: those main has collected and those of
\* finished tasks main has not taken yet.
Pending   == {k \in 1..Len(done_queue) : ~done_queue[k].raised}
Collected == {results[k] : k \in 1..Len(results)}
Produced  == Collected \cup {done_queue[k].result : k \in Pending}

ResultsFor(i) == {k \in 1..Len(results) : results[k].url = Entry(i).url}
BatchOver == main_pc \in {"done", "aborted"}

\* C1: once the batch is over, results holds exactly one Check Result per
\* input entry: NumEntries results, none missing and none duplicated.
C1_OneResultPerEntry ==
    BatchOver =>
        /\ Len(results) = NumEntries
        /\ \A i \in Entries : Cardinality(ResultsFor(i)) = 1

\* A finished batch with one entry whose DNS stage failed and one that got an
\* HTTP response.
C1_Witness ==
    /\ main_pc = "done"
    /\ \E r \in Collected : r.dns_ip = None
    /\ \E r \in Collected : r.http_status # None

\* C2: a Check Result without dns_ip has no TCP field, no HTTP field and no
\* challenge flag.
C2_DnsFailureLeavesRestUnset ==
    \A r \in Produced :
        r.dns_ip = None =>
            /\ r.tcp_ok = None /\ r.tcp_error = None /\ r.tcp_latency = None
            /\ r.http_status = None /\ r.http_error = None /\ r.http_latency = None
            /\ r.captcha = FALSE

C2_Witness == \E r \in Collected : r.dns_ip = None /\ r.dns_error # None

\* C3: a Check Result with dns_ip has a tcp_ok and an http_status or an
\* http_error, and the HTTP stage ran even when the TCP stage failed.
C3_TcpAndHttpAlwaysAttempted ==
    /\ \A r \in Produced :
          r.dns_ip # None =>
              /\ r.tcp_ok # None
              /\ r.http_status # None \/ r.http_error # None
    /\ \A k \in Pending :
          done_queue[k].result.tcp_ok = Some(FALSE) => tries[done_queue[k].task].http >= 1

\* A result whose TCP stage failed and whose HTTP stage got a response.
C3_Witness == \E r \in Collected : r.tcp_ok = Some(FALSE) /\ r.http_status = Some(200)

\* C4: a stage makes at most Retries + 1 attempts, exactly Retries + 1 when it
\* returns failure, and none after it returned.
C4_State ==
    \A i \in Entries :
        /\ tries[i].dns <= Retries + 1
        /\ tries[i].tcp <= Retries + 1
        /\ tries[i].http <= Retries + 1
        /\ (tcp[i] # None /\ tcp[i][1] = Some(FALSE)) => tries[i].tcp = Retries + 1
        /\ \A k \in Pending :
              done_queue[k].task = i =>
                  LET r == done_queue[k].result IN
                  /\ r.dns_ip = None => tries[i].dns = Retries + 1
                  /\ r.tcp_ok = Some(FALSE) => tries[i].tcp = Retries + 1
                  /\ (r.dns_ip # None /\ r.http_status = None) => tries[i].http = Retries + 1
        /\ pc[i] \in {"dns", "dns_backoff"} => dns[i] = None
        /\ pc[i] \in {"tcp", "tcp_backoff"} => tcp[i] = None
        /\ pc[i] \in {"limiter_sleep", "http", "http_backoff"} =>
              \A k \in 1..Len(done_queue) : done_queue[k].task # i

\* Once a stage of a running pipeline has returned, its attempt count stays.
C4_Step ==
    \A i \in Entries :
        /\ (dns[i] # None /\ pc'[i] # "terminal") => tries'[i].dns = tries[i].dns
        /\ (tcp[i] # None /\ pc'[i] # "terminal") => tries'[i].tcp = tries[i].tcp
        /\ (pc[i] = "terminal" /\ tries[i].dns > 0) => tries'[i] \in {tries[i], [dns |-> 0, tcp |-> 0, http |-> 0]}

C4_RetryBound == []C4_State /\ [][C4_Step]_vars

\* An HTTP stage that failed on every one of its Retries + 1 attempts, after a
\* TCP stage that succeeded at its first.
C4_Witness ==
    \E k \in Pending :
        LET r == done_queue[k].result
            i == done_queue[k].task
        IN /\ r.tcp_ok = Some(TRUE) /\ r.http_status = None
           /\ tries[i].tcp = 1 /\ tries[i].http = Retries + 1

\* The description the handlers are to give of fault f in the named stage.
Description(stage, f) ==
    IF f.cls = "TimeoutError"
    THEN CASE stage = "DNS" -> "DNS timeout" [] stage = "TCP" -> "TCP timeout"
           [] stage = "HTTP" -> "HTTP timeout"
    ELSE f.msg

\* C5: no fault leaves a probe or check_url as an exception, and a stage that
\* gave up reports the description of the fault of its last attempt.
C5_FaultsBecomeValues ==
    /\ main_pc # "aborted"
    /\ \A i \in Entries : pc[i] # "raised"
    /\ \A k \in 1..Len(done_queue) :
          LET t == done_queue[k] IN
          /\ ~t.raised
          /\ t.result.dns_ip = None =>
                /\ faults[t.task] # None
                /\ t.result.dns_error = Some(Description("DNS", Val(faults[t.task])))
          /\ (t.result.dns_ip # None /\ t.result.http_status = None) =>
                /\ faults[t.task] # None
                /\ t.result.http_error = Some(Description("HTTP", Val(faults[t.task])))
    /\ \A i \in Entries :
          (pc[i] \in {"limiter_sleep", "http"} /\ attempt[i] = 0 /\ tcp[i][1] = Some(FALSE)) =>
              /\ faults[i] # None
              /\ tcp[i][2] = Some(Description("TCP", Val(faults[i])))

\* Every stage has given up somewhere: a DNS stage on a timeout, a TCP stage
\* and an HTTP stage on a refused connection.
C5_Witness ==
    /\ \E r \in Collected : r.dns_error = Some("DNS timeout")
    /\ \E r \in Collected : r.tcp_error = Some("refused") /\ r.http_error = Some("refused")

\* Entry i has failed altogether: every DNS attempt, or every TCP and every
\* HTTP attempt.
TotalFailure(i) ==
    \/ pc[i] = "raised"
    \/ \E r \in Produced :
          /\ r.url = Entry(i).url
          /\ \/ r.dns_ip = None
             \/ r.tcp_ok = Some(FALSE) /\ r.http_status = None

\* Pipeline j's result is in results, or j can still get there: it has a step
\* to take, or its sleep is running, or main is about to take its result.
OnItsWay(j) ==
    \/ ResultsFor(j) # {}
    \/ ENABLED PipelineStep(j)
    \/ pc[j] = "limiter_sleep" /\ remaining[j] > 0 /\ ENABLED Tick
    \/ (\E k \in 1..Len(done_queue) : done_queue[k].task = j) /\ ENABLED Collect

\* C6: the total failure of one entry never keeps another entry's pipeline
\* from reaching Terminal and from contributing its Check Result.
C6_SiblingsUnaffected ==
    \A i \in Entries : TotalFailure(i) => \A j \in Entries \ {i} : OnItsWay(j)

\* One entry failed altogether first, and the other one then contributed a
\* healthy result.
C6_Witness ==
    /\ Len(results) = NumEntries
    /\ results[1].dns_ip = None
    /\ results[NumEntries].http_status = Some(200)
    /\ results[NumEntries].tcp_ok = Some(TRUE)

\* C7: two grants in a row to one caller are at least Delay apart.
C7_SameCallerSpacing ==
    (Len(grants.by) = 2 /\ grants.by[1] = grants.by[2]) => Val(grants.gap) >= Delay

\* Pipeline 1 was granted twice in a row while pipeline 2 was inside wait().
C7_Witness ==
    /\ grants.by = <<1, 1>>
    /\ Val(grants.gap) >= Delay
    /\ pc[2] = "limiter_sleep"

\* C8: any two grants of the shared limiter are at least Delay apart.
C8_GlobalSpacing == grants.gap # None => Val(grants.gap) >= Delay

\* Caller i enters wait() in this step: it reads the clock and last_request.
ReadsLimiter(i) ==
    /\ pc[i] \in {"tcp", "http_backoff"}
    /\ pc'[i] \in {"limiter_sleep", "http", "http_queued"}

\* Caller j is inside wait() between its read of last_request and its write.
InsideWait(j) == pc[j] = "limiter_sleep"

\* C9: no caller reads last_request while another caller is between its own
\* read and its write.
C9_MutualExclusion ==
    [][\A i \in Entries : ReadsLimiter(i) => \A j \in Entries \ {i} : ~InsideWait(j)]_vars

\* What the priority order of the classifier gives for result r.
Expected(r) ==
    CASE r.captcha -> "warning"
      [] ~r.captcha /\ r.dns_ip = None -> "failure"
      [] ~r.captcha /\ r.dns_ip # None /\ r.tcp_ok = Some(FALSE) -> "failure"
      [] ~r.captcha /\ r.dns_ip # None /\ r.tcp_ok # Some(FALSE)
            /\ r.http_status # None /\ Val(r.http_status) >= 400 -> "failure"
      [] OTHER -> "ok"

OutcomeOf(v) ==
    CASE v[2] = ICON_CAPTCHA -> "warning"
      [] v[2] = ICON_ERROR -> "failure"
      [] v[2] = ICON_OK -> "ok"

\* C10: colorize gives every Check Result the outcome of the priority order
\* challenge, DNS, TCP, HTTP status >= 400, ok, and gives it again when asked
\* again.
C10_ClassifierPriority ==
    cr # None =>
        /\ \A k \in 1..Len(verdict) : OutcomeOf(verdict[k]) = Expected(Val(cr))
        /\ \A k, l \in 1..Len(verdict) : verdict[k] = verdict[l]

\* A challenged result with status 200, no address and a failed TCP stage,
\* classified twice.
C10_Witness ==
    /\ cr # None
    /\ Val(cr).captcha /\ Val(cr).http_status = Some(200)
    /\ Val(cr).dns_ip = None /\ Val(cr).tcp_ok = Some(FALSE)
    /\ Len(verdict) = 2
    /\ OutcomeOf(verdict[1]) = "warning"

\* A Check Result whose HTTP stage failed: async_http_check returned
\* None, err, False, None after the DNS stage had found an address.
HttpStageFailed(r) ==
    r.dns_ip # None /\ r.http_status = None /\ r.http_error # None /\ ~r.captcha

\* C11: every Check Result of a pipeline whose HTTP stage failed is
\* classified as failure, also when its TCP stage succeeded; it is never
\* classified ok.
C11_HttpFailureIsFailure ==
    \A r \in Produced : HttpStageFailed(r) => OutcomeOf(colorize(r)) = "failure"

\* C12: build_summary is order-independent: the summary of a sequence of
\* Check Results and the summary of any permutation of it have the same group
\* keys and the same ok/warn/fail counts.
C12_OrderIndependent ==
    (built[1] # None /\ built[2] # None) => Val(built[1]).is = Val(built[2]).is

\* Three results of two groups and three classifications, A B A, summarised as
\* given and in another order.
C12_Witness ==
    /\ built[1] # None /\ built[2] # None
    /\ Len(batch) = 3
    /\ batch[1].group = "A" /\ batch[2].group = "B" /\ batch[3].group = "A"
    /\ Cardinality({colorize(batch[k])[2] : k \in 1..3}) = 3
    /\ Val(built[2]).of # batch
    /\ Val(built[2]).of[1].group = "B"

\* The results of group g in rs that the classifier gives outcome o.
Classified(rs, g, o) ==
    {k \in 1..Len(rs) : rs[k].group = g /\ OutcomeOf(colorize(rs[k])) = o}

RECURSIVE TotalCount(_, _)
TotalCount(s, gs) ==
    IF gs = {} THEN 0
    ELSE LET g == CHOOSE x \in gs : TRUE
         IN s[g].ok + s[g].warn + s[g].fail + TotalCount(s, gs \ {g})

\* What C13 asks of the summary s of the results rs.
CountsMatch(rs, s) ==
    /\ DOMAIN s = {rs[k].group : k \in 1..Len(rs)}
    /\ \A g \in DOMAIN s :
        /\ s[g].ok = Cardinality(Classified(rs, g, "ok"))
        /\ s[g].warn = Cardinality(Classified(rs, g, "warning"))
        /\ s[g].fail = Cardinality(Classified(rs, g, "failure"))
    /\ TotalCount(s, DOMAIN s) = Len(rs)

\* C13: build_summary counts each Check Result once: a group's ok, warn and
\* fail counts are the numbers of its results classified ok, warning and
\* failure, the keys are the groups that have a result, and the counts add up
\* to the number of results.
C13_CountsEachResultOnce ==
    \A k \in 1..2 : built[k] # None => CountsMatch(Val(built[k]).of, Val(built[k]).is)

\* A summary of three results: two of group A, a challenged and a failed one,
\* and a healthy one of group B.
C13_Witness ==
    /\ built[1] # None
    /\ Len(batch) = 3
    /\ Val(built[1]).is = ("A" :> [ok |-> 0, warn |-> 1, fail |-> 1]) @@ ("B" :> [ok |-> 1, warn |-> 0, fail |-> 0])

\* The batch of C14 is over: two entries of group A, the first resolved,
\* connected and got HTTP 200 without a challenge, the second failed DNS
\* resolution on every attempt.
GoodAndUnresolvable ==
    /\ main_pc = "done"
    /\ Len(results) = 2
    /\ \E r \in Collected :
        /\ r.url = Entry(1).url /\ r.group = "A"
        /\ r.dns_ip # None /\ r.tcp_ok = Some(TRUE)
        /\ r.http_status = Some(200) /\ ~r.captcha
    /\ \E r \in Collected :
        /\ r.url = Entry(2).url /\ r.group = "A"
        /\ r.dns_ip = None

\* C14: end to end, a batch of one healthy and one unresolvable entry of
\* group A gives the summary {A: {ok: 1, warn: 0, fail: 1}}, in whatever order
\* the two pipelines ran and finished.
C14_EndToEnd ==
    GoodAndUnresolvable => summary = Some("A" :> [ok |-> 1, warn |-> 0, fail |-> 1])

\* The scenario of C14 with the result of the second entry collected first.
C14_Witness ==
    /\ GoodAndUnresolvable
    /\ summary # None
    /\ results[1].url = Entry(2).url

\* The scenario of C14 with the result of the first entry collected first.
C14_WitnessInOrder ==
    /\ GoodAndUnresolvable
    /\ summary # None
    /\ results[1].url = Entry(1).url

\* A Check Result as check_url returns it at one of its two return statements:
\* the short one of a failed DNS stage, or the full one with the TCP and HTTP
\* stages filled in.
Complete(r) ==
    \/ r.dns_ip = None /\ r.dns_error # None
    \/ /\ r.dns_ip # None
       /\ r.tcp_ok # None
       /\ r.http_status # None \/ r.http_error # None

C15_State ==
    \A k \in 1..Len(results) :
        /\ pc[results[k].url] = "terminal"
        /\ Complete(results[k])

C15_Step ==
    /\ Len(results') >= Len(results)
    /\ \A k \in 1..Len(results) : results'[k] = results[k]

\* C15: the collected results hold only Check Results of pipelines that have
\* reached Terminal, none of a pipeline that is still at one of its stages,
\* and a result once appended stays as it is.
C15_OnlyTerminalResults == []C15_State /\ [][C15_Step]_vars

\* The result of one pipeline is collected while the other pipeline is at its
\* HTTP stage, after its DNS and TCP stages have returned.
C15_Witness ==
    /\ Len(results) = 1
    /\ \E i \in Entries : pc[i] = "http" /\ dns[i] # None /\ tcp[i] # None

\* The position of a pipeline in the order of its stages.
Rank(p) ==
    CASE p = "created" -> 0
      [] p \in {"dns", "dns_backoff"} -> 1
      [] p \in {"tcp", "tcp_backoff"} -> 2
      [] p \in {"limiter_sleep", "http_queued", "http", "http_backoff"} -> 3
      [] p \in {"terminal", "raised"} -> 4

\* Pipeline i is at the limiter or at a GET in this state.
AtLimiterOrGet(i) == pc[i] \in {"limiter_sleep", "http_queued", "http"}

C16_State ==
    \A i \in Entries :
        /\ Rank(pc[i]) = 0 => tries[i] = [dns |-> 0, tcp |-> 0, http |-> 0]
        /\ Rank(pc[i]) = 1 =>
              /\ dns[i] = None /\ tcp[i] = None
              /\ tries[i].dns >= 1 /\ tries[i].tcp = 0 /\ tries[i].http = 0
              /\ remaining[i] = 0
        /\ Rank(pc[i]) = 2 =>
              /\ dns[i] # None /\ dns[i][1] # None /\ tcp[i] = None
              /\ tries[i].tcp >= 1 /\ tries[i].http = 0
              /\ remaining[i] = 0
        /\ Rank(pc[i]) = 3 =>
              /\ dns[i] # None /\ dns[i][1] # None /\ tcp[i] # None
              /\ tries[i].http >= 1
        /\ \A k \in Pending :
              (done_queue[k].task = i /\ done_queue[k].result.dns_ip = None) =>
                  /\ tries[i].tcp = 0 /\ tries[i].http = 0
                  /\ done_queue[k].result.tcp_ok = None

C16_Step ==
    \A i \in Entries :
        /\ Rank(pc'[i]) >= Rank(pc[i])
        /\ Rank(pc'[i]) > Rank(pc[i]) =>
              \/ Rank(pc'[i]) = Rank(pc[i]) + 1
              \/ Rank(pc[i]) = 1 /\ pc'[i] = "terminal" /\ tries[i].tcp = 0 /\ tries[i].http = 0
              \/ pc'[i] = "raised"
        /\ Rank(pc[i]) \in {2, 3} => tries'[i].dns = tries[i].dns /\ dns'[i] \in {dns[i], None}
        /\ Rank(pc[i]) = 3 => tries'[i].tcp = tries[i].tcp /\ tcp'[i] \in {tcp[i], None}
        /\ (AtLimiterOrGet(i)' /\ pc'[i] # pc[i]) => Rank(pc[i]) \in {2, 3} /\ dns[i][1] # None
        /\ (dns'[i] # None /\ dns[i] = None) => Rank(pc[i]) = 1
        /\ (tcp'[i] # None /\ tcp[i] = None) => Rank(pc[i]) = 2

\* C16: a pipeline runs its stages in the order DNS, TCP, HTTP: TCP attempts
\* only after the DNS stage returned an address, limiter calls and HTTP
\* attempts only after the TCP stage returned, none of them after a failed DNS
\* stage, and no stage again once it has returned.
C16_StageOrder == []C16_State /\ [][C16_Step]_vars

\* One pipeline at its GET after two DNS and two TCP attempts, the other ended
\* by its failed DNS stage.
C16_Witness ==
    \E i, j \in Entries :
        /\ pc[i] = "http" /\ tries[i] = [dns |-> 2, tcp |-> 2, http |-> 1]
        /\ pc[j] = "terminal" /\ tries[j] = [dns |-> 2, tcp |-> 0, http |-> 0]

\* C17: if every attempt and every sleep completes, every pipeline reaches
\* Terminal, after at most retries + 1 attempts of each stage, and the batch
\* finishes with all pipelines terminal.
C17_Termination ==
    /\ <>(main_pc = "done" /\ \A i \in Entries : pc[i] \in {"terminal", "absent"})
    /\ [](\A i \in Entries : /\ tries[i].dns <= retries + 1
                              /\ tries[i].tcp <= retries + 1
                              /\ tries[i].http <= retries + 1)

\* The batch is over after one pipeline used every attempt of every stage: its
\* TCP stage and its HTTP stage failed retries + 1 times.
C17_Witness ==
    /\ main_pc = "done"
    /\ \A i \in Entries : pc[i] = "terminal"
    /\ \E r \in Collected : r.dns_ip # None /\ r.tcp_ok = Some(FALSE) /\ r.http_status = None

C18_WitnessProbes ==
    /\ concurrency = 1
    /\ NumEntries > concurrency
    /\ \A i \in Entries : pc[i] = "tcp"

RECURSIVE Doubled(_)
\* 1 doubled k times.
Doubled(k) == IF k = 0 THEN 1 ELSE 2 * Doubled(k - 1)

BackoffStates == {"dns_backoff", "tcp_backoff", "http_backoff"}

\* The attempts of its running stage that pipeline i has started.
TriesAt(i) ==
    CASE pc[i] \in {"dns", "dns_backoff"} -> tries[i].dns
      [] pc[i] \in {"tcp", "tcp_backoff"} -> tries[i].tcp
      [] OTHER -> tries[i].http

C19_State ==
    \A i \in Entries :
        /\ pc[i] = "dns_backoff" => backoff[i] = Some(<<20, Doubled(attempt[i])>>)
        /\ pc[i] = "tcp_backoff" => backoff[i] = Some(<<20, Doubled(attempt[i])>>)
        /\ pc[i] = "http_backoff" => backoff[i] = Some(<<30, Doubled(attempt[i])>>)
        /\ pc[i] \in BackoffStates =>
              /\ faults[i] # None
              /\ attempt[i] < retries
              /\ TriesAt(i) = attempt[i] + 1
        /\ pc[i] \notin BackoffStates => backoff[i] = None

C19_Step ==
    \A i \in Entries :
        /\ (pc'[i] \in BackoffStates /\ pc[i] # pc'[i]) =>
              /\ <<pc[i], pc'[i]>> \in {<<"dns", "dns_backoff">>, <<"tcp", "tcp_backoff">>, <<"http", "http_backoff">>, <<"http_queued", "http_backoff">>}
              /\ faults'[i] # None
              /\ attempt[i] < retries
        /\ (pc[i] \in {"dns", "tcp", "http", "http_queued"} /\ pc'[i] # pc[i]
              /\ (faults'[i] = None \/ attempt[i] = retries)) => pc'[i] \notin BackoffStates

\* C19: a backoff sleep follows a failed attempt k only when k < retries; its
\* base is b doubled k times, b = 0.2 s for DNS and TCP and 0.3 s for HTTP; no
\* backoff follows the last failed attempt or a successful one.
C19_Backoff == []C19_State /\ [][C19_Step]_vars

\* The backoff after the third failed GET of a pipeline with retries = 3:
\* 0.3 s doubled twice.
C19_Witness ==
    /\ retries = 3
    /\ pc[1] = "http_backoff" /\ attempt[1] = 2
    /\ backoff[1] = Some(<<30, 4>>)

\* C20: a call of wait() sleeps exactly when the time since last_request, read
\* at entry, is less than delay, and then for delay - elapsed plus a jitter in
\* [0, jitter_max]; every call, slept or not, returns with last_request set to
\* the time of its return.
C20_WaitContract ==
    [][\A i \in Entries :
        /\ ReadsLimiter(i) =>
              /\ (pc'[i] = "limiter_sleep") <=> (since_last < Delay)
              /\ pc'[i] = "limiter_sleep" =>
                    /\ remaining'[i] \in (Delay - since_last)..(Delay - since_last + JitterMax)
                    /\ since_last' = since_last
              /\ pc'[i] # "limiter_sleep" => since_last' = 0
        /\ (pc[i] = "limiter_sleep" /\ pc'[i] # "limiter_sleep") =>
              /\ remaining[i] = 0
              /\ since_last' = 0
        /\ (pc[i] = "limiter_sleep" /\ pc'[i] = "limiter_sleep") =>
              remaining'[i] \in {remaining[i], remaining[i] - 1}]_vars

\* One caller has just returned from wait(), and another that called at the
\* same instant sleeps delay plus the largest jitter.
C20_Witness ==
    /\ \E i \in Entries : pc[i] = "http" /\ grants.by # <<>> /\ grants.by[Len(grants.by)] = i
    /\ since_last = 0
    /\ \E j \in Entries : pc[j] = "limiter_sleep" /\ remaining[j] = Delay + JitterMax

C21_State ==
    \A i \in Entries :
        /\ gets[i].started = gets[i].granted
        /\ Rank(pc[i]) <= 2 => gets[i] = NoGets
        /\ Rank(pc[i]) = 3 =>
              gets[i].granted = IF pc[i] = "limiter_sleep" THEN tries[i].http - 1 ELSE tries[i].http
        /\ \A k \in Pending :
              done_queue[k].task = i =>
                  /\ gets[i].granted = tries[i].http
                  /\ done_queue[k].result.dns_ip = None => gets[i] = NoGets

\* Pipeline i calls session.get in this step.
StartsGet(i) == pc[i] \notin {"http", "http_queued"} /\ pc'[i] \in {"http", "http_queued"}

C21_Step ==
    \A i \in Entries :
        /\ StartsGet(i) <=> gets'[i].started = gets[i].started + 1
        /\ StartsGet(i) <=> gets'[i].granted = gets[i].granted + 1
        /\ StartsGet(i) => pc[i] \in {"tcp", "http_backoff", "limiter_sleep"} /\ since_last' = 0
        /\ gets'[i] \in {gets[i], [granted |-> gets[i].granted + 1, started |-> gets[i].started + 1], NoGets}
        /\ (gets'[i] = NoGets /\ gets[i] # NoGets) => pc[i] = "terminal"

\* C21: every session.get of a pipeline, first attempt or retry, follows one
\* return of rate_limiter.wait() to that pipeline in the same step; a pipeline
\* has been granted as often as it has started a GET, and never while it is at
\* its DNS or TCP stage.
C21_OneGrantPerGet == []C21_State /\ [][C21_Step]_vars

\* A pipeline at its second GET, granted twice, after its first GET failed;
\* the other pipeline ended without a grant.
C21_Witness ==
    \E i, j \in Entries :
        /\ pc[i] = "http" /\ attempt[i] = 1
        /\ gets[i] = [granted |-> 2, started |-> 2]
        /\ pc[j] = "terminal" /\ tries[j].dns > 0 /\ gets[j] = NoGets

\* C22: the challenge flag is set only on a received response: a challenged
\* Check Result has http_status and no http_error, and an HTTP stage that used
\* up its attempts gives no status, an error, no challenge flag and no
\* latency, whatever its failed attempts received.
C22_ChallengeOnlyOnResponse ==
    \A r \in Produced :
        /\ r.captcha => (r.http_status # None /\ r.http_error = None)
        /\ (r.dns_ip # None /\ r.http_status = None) =>
              (r.http_error # None /\ ~r.captcha /\ r.http_latency = None)

\* A challenged response with status 503 next to an HTTP stage that failed at
\* both of its attempts.
C22_Witness ==
    /\ \E r \in Produced : r.captcha /\ r.http_status = Some(503)
    /\ \E k \in Pending :
          /\ done_queue[k].result.dns_ip # None
          /\ done_queue[k].result.http_status = None
          /\ tries[done_queue[k].task].http = Retries + 1

\* Marker m occurs in text t: its pieces are those of t from some position on.
Occurs(m, t) ==
    \E q \in 1..Len(t) :
        /\ q + Len(m) - 1 <= Len(t)
        /\ \A k \in 1..Len(m) : t[q + k - 1] = m[k]

\* The lower-cased "key:value" texts of the headers hs, a blank between them.
Flattened(hs) ==
    IF Len(hs) = 0 THEN <<>>
    ELSE LET line(j) == <<LowerPiece(hs[j][1]), ":">> \o Lower(hs[j][2])
             RECURSIVE rest(_)
             rest(j) == IF j > Len(hs) THEN <<>> ELSE <<" ">> \o line(j) \o rest(j + 1)
         IN line(1) \o rest(2)

\* Some marker occurs in the lower-cased body or in the flattened headers.
HasMarker(r) ==
    \E m \in markers : Occurs(m, Lower(r.body)) \/ Occurs(m, Flattened(r.headers))

\* detect_captcha answers true exactly for a response with a marker, and the
\* same at every call.
C23_Iff ==
    /\ \A k \in 1..Len(found) : found[k] = HasMarker(given)
    /\ found_grown # None => Val(found_grown) = HasMarker(page)

\* C23 as stated: detect_captcha is true exactly when a marker occurs in the
\* lower-cased body or in the flattened headers, and text added to the body or
\* to a header never turns true into false.
C23_AddedTextKeepsTrue ==
    /\ C23_Iff
    /\ (grown # "no" /\ found_grown # None /\ found[1]) => Val(found_grown)

\* C23, amended: detect_captcha is true exactly when a marker occurs in the
\* lower-cased body or in the flattened headers; text added at the start or
\* the end of the body, or a header added after the others, never turns true
\* into false.
C23_Detector ==
    /\ C23_Iff
    /\ (grown \in {"body", "header_new"} /\ found_grown # None /\ found[1]) => Val(found_grown)

\* "rate limit" found across two headers, X: Rate and Limit: (empty), called
\* twice, and found again after a header was added.
C23_Witness ==
    /\ given.body = <<>>
    /\ given.headers = << <<"x", <<"Rate">>>>, <<"Limit", <<>>>> >>
    /\ found = <<TRUE, TRUE>>
    /\ grown = "header_new"
    /\ found_grown = Some(TRUE)

\* C24: the TCP probe returns (False, error, None) only when none of its
\* attempts established the connection; a fault while closing an established
\* connection does not make the attempt a failed one.
C24_CloseFaultIsNotFailure ==
    \A i \in Entries :
        (tcp[i] # None /\ tcp[i][1] = Some(FALSE)) =>
            ~(faults[i] # None /\ Val(faults[i]) \in CloseFaults)

\* C25: in every Check Result each stage that was attempted has either its
\* value and a latency, or an error: dns_ip, no dns_error and dns_latency go
\* together, and so do tcp_ok = True, no tcp_error and tcp_latency, and
\* http_status, no http_error and http_latency.
C25_ValueXorError ==
    \A r \in Produced :
        /\ (r.dns_ip # None) <=> (r.dns_error = None)
        /\ (r.dns_ip # None) <=> (r.dns_latency # None)
        /\ r.tcp_ok # None =>
              /\ (r.tcp_ok = Some(TRUE)) <=> (r.tcp_error = None)
              /\ (r.tcp_ok = Some(TRUE)) <=> (r.tcp_latency # None)
              /\ (r.http_status # None) <=> (r.http_error = None)
              /\ (r.http_status # None) <=> (r.http_latency # None)
        /\ r.tcp_ok = None =>
              /\ r.tcp_error = None /\ r.tcp_latency = None
              /\ r.http_status = None /\ r.http_error = None /\ r.http_latency = None

\* A result with an address, a failed TCP stage and an HTTP response, next to
\* one with a connection and a failed HTTP stage.
C25_Witness ==
    /\ \E r \in Produced : r.dns_ip # None /\ r.tcp_ok = Some(FALSE) /\ r.http_status # None
    /\ \E r \in Produced : r.tcp_ok = Some(TRUE) /\ r.http_status = None

\* C26: for every Check Result the pipeline can produce, the classifier
\* returns ok exactly when CheckResult.is_success() is true.
C26_ClassifierAgreesWithIsSuccess ==
    \A r \in Produced : (colorize(r)[2] = ICON_OK) <=> is_success(r)

\* C27: a received response ends the HTTP stage.  An attempt that received a
\* response and read its body makes the stage return that status at once,
\* whatever the status and the challenge verdict; the stage goes on to another
\* attempt only after a fault that its except clauses caught, and only while
\* attempts are left.
C27_Step ==
    \A i \in Entries :
        (pc[i] \in {"http", "http_queued"} /\ pc'[i] \notin {"http", "http_queued"}) =>
            IF faults'[i] = None
            THEN /\ pc'[i] = "terminal"
                 /\ done_queue' # done_queue
                 /\ LET o == done_queue'[Len(done_queue')] IN
                      /\ o.task = i /\ ~o.raised
                      /\ o.result.http_status \in {Some(s) : s \in Statuses}
                      /\ o.result.http_error = None
                 /\ tries'[i] = tries[i]
            ELSE /\ pc'[i] = "http_backoff" <=>
                      (Catches(Val(faults'[i])) /\ attempt[i] < retries)
                 /\ pc'[i] = "terminal" =>
                      done_queue'[Len(done_queue')].result.http_status = None

C27_ResponseEndsStage == [][C27_Step]_vars

\* The first attempt of an HTTP stage that has a retry left received a 503, or
\* a challenge page, and the stage returned it; another stage was retried
\* after a fault and then returned a response.
C27_Witness ==
    /\ \E k \in Pending :
          /\ done_queue[k].result.http_status = Some(503)
          /\ tries[done_queue[k].task].http = 1
          /\ retries >= 1
    /\ \E k \in Pending :
          /\ done_queue[k].result.http_status # None
          /\ tries[done_queue[k].task].http = 2

\* The lines read so far that set the group label, and those that emit an
\* entry, as the two rules describe them.
LabelLines ==
    {k \in 1..Len(file) :
        LET s == Strip(file[k]) IN
        (\E j \in 1..Len(s) : s[j] = ":") /\ ~(s # <<>> /\ LowerPiece(s[1]) = "full url")}

EmittingLines ==
    {k \in 1..Len(file) :
        LET s == Strip(file[k]) IN
        /\ Len(s) >= 2 /\ LowerPiece(s[1]) = "full url" /\ s[2] = ":"
        /\ ~normalize_urlRaises(SubSeq(s, 3, Len(s)))
        /\ normalize_url(SubSeq(s, 3, Len(s))) # None}

\* The label in force at line k: the trimmed text of the last label line
\* before it, "Ungrouped" when there is none.
LabelAt(k) ==
    LET before == {j \in LabelLines : j < k} IN
    IF before = {} THEN <<"Ungrouped">>
    ELSE Strip(file[CHOOSE j \in before : \A h \in before : h <= j])

\* The n-th emitting line.
NthEmitting(n) == CHOOSE k \in EmittingLines : Cardinality({j \in EmittingLines : j <= k}) = n

C28_State ==
    /\ Len(entries) = Cardinality(EmittingLines)
    /\ \A n \in 1..Len(entries) :
          /\ entries[n].group = LabelAt(NthEmitting(n))
          /\ entries[n].original = Strip(file[NthEmitting(n)])
          /\ entries[n].url = Val(normalize_url(SubSeq(entries[n].original, 3, Len(entries[n].original))))
    /\ current_group = LabelAt(Len(file) + 1)

C28_Step ==
    (file' # file /\ Len(file') \notin LabelLines' /\ Len(file') \notin EmittingLines') =>
        UNCHANGED <<current_group, entries>>

\* C28: the loader goes through the file line by line with a current group
\* label that starts as "Ungrouped".  The entries are those of the lines that
\* start with "full url:" (in lower case) and whose text after the first colon
\* normalizes to a URL, in file order; each carries the trimmed text of the
\* last line before it that has a colon and does not start with "full url";
\* a line of neither kind changes neither the label nor the entries.
C28_Loader == []C28_State /\ [][C28_Step]_vars

\* Two label lines, then a line that emits an entry under the second label,
\* and the file is returned; and a file with a line of neither kind between
\* a label line and an emitting line.
C28_Witness ==
    /\ load_pc = "returned"
    /\ Len(file) = 3
    /\ LabelLines = {1, 2}
    /\ EmittingLines = {3}
    /\ Strip(file[1]) # Strip(file[2])
    /\ entries[1].group = Strip(file[2])

C28_WitnessIgnored ==
    /\ Len(file) = 3
    /\ LabelLines = {1}
    /\ EmittingLines = {3}
    /\ file[2] # <<>>
    /\ entries[1].group = Strip(file[1])

\* C29: every numeric option passed on the command line replaces the
\* corresponding configuration value, also when the value passed is 0.
C29_OptionReplaces ==
    cli_pc = "configured" =>
        LET a == Val(args)
            c == Val(config)
        IN /\ a.concurrency # None => c.concurrency = Val(a.concurrency)
           /\ a.retries # None => c.retries = Val(a.retries)
           /\ a.timeout # None => c.http_timeout = Val(a.timeout)
           /\ a.rate_limit # None => c.rate_limit_delay = Val(a.rate_limit)

\* The run_check tasks of check id, and whether every pipeline of task k has
\* reached Terminal (none is running and none ended in an exception).
TasksOf(id) == {k \in 1..Len(tasks) : tasks[k].check_id = id}
AllTerminal(k) ==
    /\ tasks[k].pc \in {"exporting", "finished"}
    /\ Len(tasks[k].results) = tasks[k].entries

C30_Record(id) ==
    LET c == Val(active_checks[id]) IN
    /\ c.progress = Len(c.results)
    /\ c.progress <= c.total
    /\ c.status = "completed" =>
          /\ \A k \in TasksOf(id) : AllTerminal(k)
          /\ c.progress = c.total
          /\ c.summary # None

\* The answer to the request served in this step is a report only if the
\* check is completed.
C30_Step ==
    (response' # response /\ Val(response').route = "download" /\ Val(response').code = 200) =>
        LET id == Val(Val(response').check_id) IN
        active_checks[id] # None /\ Val(active_checks[id]).status = "completed"

C30_WebRecordOfOneCheck ==
    /\ [](\A id \in CheckIds :
            (active_checks[id] # None /\ Cardinality(TasksOf(id)) <= 1) => C30_Record(id))
    /\ [][C30_Step]_vars

\* A completed check of two entries whose id no other call has used.
C30_OneCheckCompleted ==
    \E id \in CheckIds :
        /\ active_checks[id] # None
        /\ Cardinality(TasksOf(id)) = 1
        /\ Val(active_checks[id]).status = "completed"
        /\ Val(active_checks[id]).total = MaxUrls
        /\ response # None /\ Val(response) = Answer("download", 200, Some(id))

\* A check that is registered as running.
RunningCheck(id) == active_checks[id] # None /\ Val(active_checks[id]).status = "running"

\* start_check answers this step with success = false.
AnswersFailure ==
    /\ response' # response
    /\ Val(response').route = "check"
    /\ Val(response').code = 400

C31_Step ==
    AnswersFailure =>
        \/ Val(response').check_id = None
        \/ active_checks'[Val(Val(response').check_id)] = None

\* The two parts of C31.
C31_EveryCheckEnds == \A id \in CheckIds : RunningCheck(id) ~> ~RunningCheck(id)
C31_FailureLeavesNoEntry == [][C31_Step]_vars

\* C31: in the web front-end, every check that start_check registers with
\* status 'running' eventually has status 'completed' or 'error', and a
\* start_check that answers success = false leaves no entry for that check
\* in active_checks.
C31_ChecksEnd == C31_EveryCheckEnds /\ C31_FailureLeavesNoEntry

====
